---- MODULE Spec2Model ----
(***************************************************************************)
(* State machine of the vue-flow graph store (store/actions.ts,            *)
(* store/getters.ts, utils/storage.ts and the Nodes / NodeWrapper          *)
(* components).  Collections are sequences of records, an optional value   *)
(* (T | undefined) is a sequence of length 0 or 1, and an optional flag     *)
(* (boolean | undefined) is a record key that is present or absent.        *)
(***************************************************************************)
EXTENDS Integers, Sequences, FiniteSets, TLC

VARIABLES
    nodes,                      \* state.nodes
    edges,                      \* state.edges
    connectionLookup,           \* state.connectionLookup
    initialized,                \* state.initialized
    multiSelectionActive,       \* state.multiSelectionActive
    isValidConnection,          \* state.isValidConnection
    applyDefault,               \* whether the change hooks apply the changes
    onlyRenderVisibleElements,  \* state.onlyRenderVisibleElements
    connectionStartHandle,      \* state.connectionStartHandle
    connectionClickStartHandle, \* state.connectionClickStartHandle
    connectionEndHandle,        \* state.connectionEndHandle
    connectionStatus,           \* state.connectionStatus
    connectionPosition,         \* state.connectionPosition
    vueFlowRef,                 \* state.vueFlowRef
    fitViewOnInit,              \* state.fitViewOnInit
    fitViewOnInitDone,          \* state.fitViewOnInitDone
    fitViewTicks,               \* nextTick callbacks queued by updateNodeDimensions
    viewport,                   \* state.viewport
    viewportInitialized,        \* viewportHelper.value.viewportInitialized
    pendingViewports,           \* viewports of fromObject calls waiting for the helper
    saved,                      \* the snapshot the caller keeps from toObject()
    d3Zoom,                     \* state.d3Zoom: the pan-zoom engine and its extents
    minZoom,                    \* state.minZoom
    maxZoom,                    \* state.maxZoom
    translateExtent,            \* state.translateExtent
    pendingSkipped,             \* setState calls waiting for d3Zoom with zoom options
    setStateCalls,              \* number of setState calls that gave zoom options
    skippedApplied,             \* the calls whose zoom options have been applied
    zoomRequested,              \* the zoom options as the caller last asked for them
    resizeObserver,             \* the ResizeObserver of the nodes component
    resizeTicks,                \* the resize reports deferred to the next tick
    flows,                      \* Storage.flows: the store registered under each id
    stores,                     \* the stores Storage.create has made, oldest first
    events,                     \* hook triggers of the last action, in order
    errors,                     \* error-hook triggers of the last action
    call                        \* the last action and its arguments

vars == <<nodes, edges, connectionLookup, initialized, multiSelectionActive,
          isValidConnection, applyDefault, onlyRenderVisibleElements,
          connectionStartHandle,
          connectionClickStartHandle, connectionEndHandle, connectionStatus,
          connectionPosition, vueFlowRef, fitViewOnInit, fitViewOnInitDone,
          fitViewTicks, viewport, viewportInitialized, pendingViewports, saved,
          d3Zoom, minZoom, maxZoom, translateExtent, pendingSkipped, setStateCalls,
          skippedApplied, zoomRequested, resizeObserver, resizeTicks, flows, stores,
          events, errors,
          call>>

(***************************************************************************)
(* Bounds of the model.                                                    *)
(***************************************************************************)
MaxNodes == 3
MaxEdges == 2
MaxTargets == 2
MaxUpdates == 2
MaxTicks == 2
MaxDragItems == 2
MaxZoomCalls == 2
MaxStores == 3
MaxCoordinate == 8

Undefined == "undefined"
Null == "null"

(***************************************************************************)
(* Sequence helpers (Array.prototype.map / filter / includes).             *)
(***************************************************************************)
Range(s) == {s[i] : i \in 1..Len(s)}

RECURSIVE SeqsUpTo(_, _)
SeqsUpTo(S, n) ==
    IF n = 0 THEN {<<>>}
    ELSE LET shorter == SeqsUpTo(S, n - 1)
         IN shorter \cup {Append(s, x) : s \in {t \in shorter : Len(t) = n - 1}, x \in S}

\* the sequences of SeqsUpTo(S, n) that name no id twice
DistinctIdSeqs(S, n) ==
    {s \in SeqsUpTo(S, n) : \A i, j \in 1..Len(s) : s[i].id = s[j].id => i = j}

\* the sub-lists of a list (its elements in order, some left out), up to length n
RECURSIVE SubSeqs(_, _)
SubSeqs(s, n) ==
    IF s = <<>> \/ n = 0 THEN {<<>>}
    ELSE SubSeqs(Tail(s), n) \cup {<<Head(s)>> \o t : t \in SubSeqs(Tail(s), n - 1)}

MaxOf(S) == CHOOSE m \in S : \A k \in S : k <= m

\* Object.assign(a, b): the keys of b overwrite those of a
Assign(a, b) ==
    [k \in (DOMAIN a) \cup (DOMAIN b) |-> IF k \in DOMAIN b THEN b[k] ELSE a[k]]

\* object rest destructuring: a without the keys of K
Omit(a, K) == [k \in (DOMAIN a) \ K |-> a[k]]

\* isDef(v)
isDef(v) == v # Undefined

\* obj.key, undefined when the key is absent
Get(obj, key) == IF key \in DOMAIN obj THEN obj[key] ELSE Undefined

(***************************************************************************)
(* Lookups.                                                                *)
(***************************************************************************)
\* nodesMap.get(id): the Map is built from the list, a later entry wins
mapGet(coll, id) ==
    LET idx == {i \in 1..Len(coll) : coll[i].id = id}
    IN IF idx = {} THEN <<>> ELSE <<coll[MaxOf(idx)]>>

findNode(ns, id) == IF id = "" \/ id = Undefined THEN <<>> ELSE mapGet(ns, id)

findEdge(es, id) == IF id = "" \/ id = Undefined THEN <<>> ELSE mapGet(es, id)

(***************************************************************************)
(* Graph entity builders (utils/graph.ts).                                 *)
(***************************************************************************)
\* the record a node starts from when no node with its id exists yet
defaultNode(node) ==
    [id |-> node.id,
     position |-> [x |-> 0, y |-> 0],
     computedPosition |-> IF "position" \in DOMAIN node THEN node.position
                          ELSE [x |-> 0, y |-> 0],
     dimensions |-> [width |-> 0, height |-> 0],
     handleBounds |-> [source |-> <<>>, target |-> <<>>],
     selected |-> FALSE,
     dragging |-> FALSE,
     initialized |-> FALSE,
     data |-> <<>>]

\* parseNode: the input's fields over the existing node, or over the defaults
parseNode(node, existing) ==
    Assign(IF existing = <<>> THEN defaultNode(node) ELSE existing[1], node)

\* createGraphNodes(nextNodes, currentNodes, findNode, onError)
createGraphNodes(nextNodes, currNodes) ==
    [i \in 1..Len(nextNodes) |-> parseNode(nextNodes[i], findNode(currNodes, nextNodes[i].id))]

\* the record an edge starts from when no edge with its id exists yet
defaultEdge(edge) ==
    [id |-> edge.id,
     source |-> edge.source,
     target |-> edge.target,
     sourceHandle |-> Null,
     targetHandle |-> Null,
     selected |-> FALSE]

\* parseEdge(edge, existingEdge, defaultEdgeOptions)
parseEdge(edge, existing) ==
    Assign(IF existing = <<>> THEN defaultEdge(edge) ELSE existing[1], edge)

\* getEdgeId: the id derived from the source / target / handle tuple
getEdgeId(c) ==
    "vueflow__edge-" \o c.source \o "-" \o c.target

\* addEdgeToStore(edgeParams, edges, triggerError, defaultEdgeOptions): the built
\* edge, or nothing (and an error) for a connection without source or target.
\* It is handed the edge collection only, never the nodes.
addEdgeToStore(edgeParams, currEdges) ==
    IF edgeParams.source = "" \/ edgeParams.target = ""
    THEN [edge |-> <<>>, errors |-> <<[code |-> "EDGE_INVALID", id |-> Get(edgeParams, "id")]>>]
    ELSE [edge |-> <<parseEdge(IF "id" \in DOMAIN edgeParams THEN edgeParams
                                ELSE Assign(edgeParams, [id |-> getEdgeId(edgeParams)]),
                               <<>>)>>,
          errors |-> <<>>]

\* getConnectedEdges(nodes, edges): the edges whose source or target is one of nodes
getConnectedEdgesBase(ns, es) ==
    LET ids == {ns[i].id : i \in 1..Len(ns)}
        Incident(e) == e.source \in ids \/ e.target \in ids
    IN SelectSeq(es, Incident)

(***************************************************************************)
(* Connection lookup index (utils/store.ts).                               *)
(***************************************************************************)
\* updateConnectionLookup(lookup, edges): rebuilt from the edges given
updateConnectionLookup(es) ==
    {<<es[i].source, "source", Get(es[i], "sourceHandle"), es[i].id>> : i \in 1..Len(es)}
    \cup {<<es[i].target, "target", Get(es[i], "targetHandle"), es[i].id>> : i \in 1..Len(es)}

(***************************************************************************)
(* Change descriptors and their application (utils/changes.ts).            *)
(***************************************************************************)
createAdditionChange(item) == [type |-> "add", item |-> item]

createNodeRemoveChange(id) == [type |-> "remove", id |-> id]

createEdgeRemoveChange(e) ==
    [type |-> "remove", id |-> e.id, source |-> e.source, target |-> e.target]

createSelectionChange(id, selected) == [type |-> "select", id |-> id, selected |-> selected]

\* one change applied to one element with a matching id
applyChange(c, el) ==
    IF c.type = "select" THEN Assign(el, [selected |-> c.selected])
    ELSE IF c.type = "position"
    THEN Assign(Assign(el, [dragging |-> c.dragging]),
                IF "position" \in DOMAIN c THEN [position |-> c.position] ELSE <<>>)
    ELSE IF c.type = "dimensions"
    THEN Assign(Assign(el, [dimensions |-> c.dimensions, initialized |-> TRUE]),
                IF "handleBounds" \in DOMAIN c THEN [handleBounds |-> c.handleBounds] ELSE <<>>)
    ELSE el

\* applyChanges(changes, elements): the changes applied in order; a change that
\* names no element of the collection changes nothing
RECURSIVE applyChanges(_, _)
applyChanges(changes, elements) ==
    IF changes = <<>> THEN elements
    ELSE LET c == Head(changes)
             Keep(el) == el.id # c.id
             next == IF c.type = "add" THEN Append(elements, c.item)
                     ELSE IF c.type = "remove" THEN SelectSeq(elements, Keep)
                     ELSE [i \in 1..Len(elements) |->
                              IF elements[i].id = c.id THEN applyChange(c, elements[i])
                              ELSE elements[i]]
         IN applyChanges(Tail(changes), next)

(***************************************************************************)
(* The store an action works on, and the change hooks.                     *)
(***************************************************************************)
Store ==
    [nodes |-> nodes, edges |-> edges, connectionLookup |-> connectionLookup,
     events |-> <<>>, errors |-> <<>>, threw |-> FALSE]

\* state.hooks.error.trigger(error)
triggerError(st, errs) == [st EXCEPT !.errors = @ \o errs]

\* applyNodeChanges(changes)
applyNodeChanges(st, changes) == [st EXCEPT !.nodes = applyChanges(changes, @)]

\* applyEdgeChanges(changes)
applyEdgeChanges(st, changes) ==
    LET changedEdges == applyChanges(changes, st.edges)
    IN [st EXCEPT !.edges = changedEdges,
                  !.connectionLookup = updateConnectionLookup(changedEdges)]

\* state.hooks.nodesChange.trigger(changes): the listener of the default wiring
\* applies the changes at once
triggerNodesChange(st, changes) ==
    LET logged == [st EXCEPT !.events = Append(@, [hook |-> "nodesChange", changes |-> changes])]
    IN IF applyDefault THEN applyNodeChanges(logged, changes) ELSE logged

\* state.hooks.edgesChange.trigger(changes)
triggerEdgesChange(st, changes) ==
    LET logged == [st EXCEPT !.events = Append(@, [hook |-> "edgesChange", changes |-> changes])]
    IN IF applyDefault THEN applyEdgeChanges(logged, changes) ELSE logged

(***************************************************************************)
(* setNodes / setEdges / setElements / addNodes / addEdges.                *)
(***************************************************************************)
\* the user's isValidConnection predicate; the one modelled rejects self loops
validConnection(edge) ==
    IF isValidConnection = Undefined THEN TRUE ELSE edge.source # edge.target

\* mutant of setNodes: an empty collection is set whatever the store is
setNodes_unguarded(st, nextNodes) ==
    [st EXCEPT !.nodes = createGraphNodes(nextNodes, st.nodes)]

setNodes(st, nextNodes) ==
    IF ~initialized /\ Len(nextNodes) = 0 THEN st
    ELSE [st EXCEPT !.nodes = createGraphNodes(nextNodes, st.nodes)]

missingSource(st, edge) == findNode(st.nodes, edge.source) = <<>>

\* mutant of missingTarget: the target is never looked up
missingTarget_unchecked(st, edge) == FALSE

missingTarget(st, edge) == findNode(st.nodes, edge.target) = <<>>

\* mutant of missingErrors: the source and the target error are published side
\* by side when both endpoints are missing
missingErrors_both(st, edge) ==
    (IF missingSource(st, edge)
     THEN <<[code |-> "EDGE_SOURCE_MISSING", id |-> edge.id]>> ELSE <<>>)
    \o (IF missingTarget(st, edge)
        THEN <<[code |-> "EDGE_TARGET_MISSING", id |-> edge.id]>> ELSE <<>>)

\* the errors setEdges publishes for one edge
missingErrors(st, edge) ==
    IF missingSource(st, edge) /\ missingTarget(st, edge)
    THEN <<[code |-> "EDGE_SOURCE_TARGET_MISSING", id |-> edge.id]>>
    ELSE (IF missingSource(st, edge)
          THEN <<[code |-> "EDGE_SOURCE_MISSING", id |-> edge.id]>> ELSE <<>>)
         \o (IF missingTarget(st, edge)
             THEN <<[code |-> "EDGE_TARGET_MISSING", id |-> edge.id]>> ELSE <<>>)

\* mutant of setEdgesReduce: the first edge with a missing endpoint ends it
RECURSIVE setEdgesReduce_failFast(_, _, _, _)
setEdgesReduce_failFast(st, validEdges, res, errs) ==
    IF validEdges = <<>> THEN [edges |-> res, errors |-> errs]
    ELSE LET edge == Head(validEdges)
             published == errs \o missingErrors(st, edge)
         IN IF missingSource(st, edge) \/ missingTarget(st, edge)
            THEN [edges |-> res, errors |-> published]
            ELSE setEdgesReduce_failFast(st, Tail(validEdges),
                     Append(res, parseEdge(edge, findEdge(st.edges, edge.id))),
                     published)

\* the reduce of setEdges: res is the accumulator, errs the errors published
\* (the cached sourceNode / targetNode references of an edge are not modelled:
\* they are the nodes findNode resolves source and target to)
RECURSIVE setEdgesReduce(_, _, _, _)
setEdgesReduce(st, validEdges, res, errs) ==
    IF validEdges = <<>> THEN [edges |-> res, errors |-> errs]
    ELSE LET edge == Head(validEdges)
             published == errs \o missingErrors(st, edge)
         IN IF missingSource(st, edge) \/ missingTarget(st, edge)
            THEN setEdgesReduce(st, Tail(validEdges), res, published)
            ELSE setEdgesReduce(st, Tail(validEdges),
                     Append(res, parseEdge(edge, findEdge(st.edges, edge.id))),
                     published)

setEdges(st, nextEdges) ==
    IF ~initialized /\ Len(nextEdges) = 0 THEN st
    ELSE LET validEdges == SelectSeq(nextEdges, validConnection)
             reduced == setEdgesReduce(st, validEdges, <<>>, <<>>)
         IN [triggerError(st, reduced.errors) EXCEPT
                !.connectionLookup = updateConnectionLookup(validEdges),
                !.edges = reduced.edges]

isEdge(el) == "source" \in DOMAIN el /\ "target" \in DOMAIN el

isNode(el) == ~isEdge(el)

setElements(st, nextElements) ==
    IF ~initialized /\ Len(nextElements) = 0 THEN st
    ELSE setEdges(setNodes(st, SelectSeq(nextElements, isNode)), SelectSeq(nextElements, isEdge))

addNodes(st, nextNodes) ==
    LET graphNodes == createGraphNodes(nextNodes, st.nodes)
        changes == [i \in 1..Len(graphNodes) |-> createAdditionChange(graphNodes[i])]
    IN IF Len(changes) > 0 THEN triggerNodesChange(st, changes) ELSE st

\* the reduce of addEdges: the add changes, and the errors of the builder
RECURSIVE addEdgesReduce(_, _, _, _)
addEdgesReduce(st, validEdges, edgeChanges, errs) ==
    IF validEdges = <<>> THEN [changes |-> edgeChanges, errors |-> errs]
    ELSE LET built == addEdgeToStore(Head(validEdges), st.edges)
         IN IF built.edge # <<>>
            THEN addEdgesReduce(st, Tail(validEdges),
                     Append(edgeChanges, createAdditionChange(built.edge[1])),
                     errs \o built.errors)
            ELSE addEdgesReduce(st, Tail(validEdges), edgeChanges, errs \o built.errors)

addEdges(st, nextEdges) ==
    LET validEdges == SelectSeq(nextEdges, validConnection)
        reduced == addEdgesReduce(st, validEdges, <<>>, <<>>)
        reported == triggerError(st, reduced.errors)
    IN IF Len(reduced.changes) > 0 THEN triggerEdgesChange(reported, reduced.changes)
       ELSE reported

(***************************************************************************)
(* setState.                                                               *)
(***************************************************************************)
\* the elements setState hands to setElements: modelValue, nodes, edges
stateElements(opts) ==
    (IF "nodes" \in DOMAIN opts THEN opts.nodes ELSE <<>>)
    \o (IF "edges" \in DOMAIN opts THEN opts.edges ELSE <<>>)

setState(st, opts) ==
    IF "nodes" \in DOMAIN opts \/ "edges" \in DOMAIN opts
    THEN setElements(st, stateElements(opts))
    ELSE st

(***************************************************************************)
(* The state after useState(), and the steps of the store.                 *)
(***************************************************************************)
NoPosition == "NaN"

optionVars == <<initialized, multiSelectionActive, isValidConnection, applyDefault,
                onlyRenderVisibleElements>>

zoomVars == <<d3Zoom, minZoom, maxZoom, translateExtent, pendingSkipped, setStateCalls,
              skippedApplied, zoomRequested>>

\* the zoom options of useState(): zoom factors in tenths, no pan-zoom engine
DefaultZoom == [minZoom |-> 5, maxZoom |-> 20, translateExtent |-> "infinite"]

ZoomAsCreated ==
    /\ d3Zoom = <<>>
    /\ minZoom = DefaultZoom.minZoom
    /\ maxZoom = DefaultZoom.maxZoom
    /\ translateExtent = DefaultZoom.translateExtent
    /\ pendingSkipped = <<>>
    /\ setStateCalls = 0
    /\ skippedApplied = <<>>
    /\ zoomRequested = DefaultZoom

observerVars == <<resizeObserver, resizeTicks>>

storageVars == <<flows, stores>>

viewportVars == <<viewport, viewportInitialized, pendingViewports>>

viewVars == <<vueFlowRef, fitViewOnInit, fitViewOnInitDone, fitViewTicks>>

connectionVars == <<connectionStartHandle, connectionClickStartHandle,
                    connectionEndHandle, connectionStatus, connectionPosition>>

Init ==
    /\ nodes = <<>>
    /\ edges = <<>>
    /\ connectionLookup = {}
    /\ initialized = FALSE
    /\ multiSelectionActive = FALSE
    /\ isValidConnection = Undefined
    /\ applyDefault = TRUE
    /\ onlyRenderVisibleElements = FALSE
    /\ connectionStartHandle = Null
    /\ connectionClickStartHandle = Null
    /\ connectionEndHandle = Null
    /\ connectionStatus = Null
    /\ connectionPosition = NoPosition
    /\ events = <<>>
    /\ errors = <<>>
    /\ vueFlowRef = Null
    /\ fitViewOnInit = FALSE
    /\ fitViewOnInitDone = FALSE
    /\ fitViewTicks = 0
    /\ viewport = [x |-> 0, y |-> 0, zoom |-> 1]
    /\ viewportInitialized = FALSE
    /\ pendingViewports = <<>>
    /\ saved = <<>>
    /\ ZoomAsCreated
    /\ resizeObserver = Null
    /\ resizeTicks = <<>>
    /\ flows = <<>>
    /\ stores = <<>>
    /\ call = [op |-> "useState"]

\* the store Storage.create(id) returns when no state is preloaded: it has
\* run setState once on the state of useState()
InitCreated ==
    /\ nodes = <<>>
    /\ edges = <<>>
    /\ connectionLookup = {}
    /\ initialized = TRUE
    /\ multiSelectionActive = FALSE
    /\ isValidConnection = Undefined
    /\ applyDefault = TRUE
    /\ onlyRenderVisibleElements = FALSE
    /\ connectionStartHandle = Null
    /\ connectionClickStartHandle = Null
    /\ connectionEndHandle = Null
    /\ connectionStatus = Null
    /\ connectionPosition = NoPosition
    /\ events = <<>>
    /\ errors = <<>>
    /\ vueFlowRef = Null
    /\ fitViewOnInit = FALSE
    /\ fitViewOnInitDone = FALSE
    /\ fitViewTicks = 0
    /\ viewport = [x |-> 0, y |-> 0, zoom |-> 1]
    /\ viewportInitialized = FALSE
    /\ pendingViewports = <<>>
    /\ saved = <<>>
    /\ ZoomAsCreated
    /\ resizeObserver = Null
    /\ resizeTicks = <<>>
    /\ flows = <<>>
    /\ stores = <<>>
    /\ call = [op |-> "create"]

\* the collections, the hook log and the call record after an action
Commit(r, c) ==
    /\ nodes' = r.nodes
    /\ edges' = r.edges
    /\ connectionLookup' = r.connectionLookup
    /\ events' = r.events
    /\ errors' = r.errors
    /\ call' = c

\* storeOptionsToSkip: the zoom options setState leaves to setSkippedOptions
storeOptionsToSkip == {"minZoom", "maxZoom", "translateExtent"}

\* isDef(opts[key]) for an option that is a number when it is given
isGiven(opts, key) == key \in DOMAIN opts

givesSkippedOptions(opts) == \E key \in storeOptionsToSkip : isGiven(opts, key)

\* The zoom part of the store, as the three setters read and write it.
ZoomState == [d3Zoom |-> d3Zoom, minZoom |-> minZoom, maxZoom |-> maxZoom,
              translateExtent |-> translateExtent]

\* state.d3Zoom?.scaleExtent([minZoom, state.maxZoom]); state.minZoom = minZoom
setMinZoom(z, value) ==
    [z EXCEPT !.d3Zoom = IF z.d3Zoom = <<>> THEN <<>>
                         ELSE <<[z.d3Zoom[1] EXCEPT !.scaleExtent = <<value, z.maxZoom>>]>>,
              !.minZoom = value]

setMaxZoom(z, value) ==
    [z EXCEPT !.d3Zoom = IF z.d3Zoom = <<>> THEN <<>>
                         ELSE <<[z.d3Zoom[1] EXCEPT !.scaleExtent = <<z.minZoom, value>>]>>,
              !.maxZoom = value]

setTranslateExtent(z, value) ==
    [z EXCEPT !.d3Zoom = IF z.d3Zoom = <<>> THEN <<>>
                         ELSE <<[z.d3Zoom[1] EXCEPT !.translateExtent = value]>>,
              !.translateExtent = value]

setSkippedOptions_maxZoomOnly(z, opts) ==
    IF isGiven(opts, "maxZoom") THEN setMaxZoom(z, opts.maxZoom) ELSE z

\* the continuation of setState: maxZoom, then minZoom, then translateExtent
setSkippedOptions(z, opts) ==
    LET z1 == IF isGiven(opts, "maxZoom") THEN setMaxZoom(z, opts.maxZoom) ELSE z
        z2 == IF isGiven(opts, "minZoom") THEN setMinZoom(z1, opts.minZoom) ELSE z1
    IN  IF isGiven(opts, "translateExtent")
        THEN setTranslateExtent(z2, opts.translateExtent) ELSE z2

CommitZoom(z) ==
    /\ d3Zoom' = z.d3Zoom
    /\ minZoom' = z.minZoom
    /\ maxZoom' = z.maxZoom
    /\ translateExtent' = z.translateExtent

\* setState writes none of the zoom options itself; it leaves them to a
\* continuation that waits for state.d3Zoom.  A continuation of a call that
\* gave no zoom option does nothing and is not kept.
SetState(opts) ==
    /\ givesSkippedOptions(opts) => setStateCalls < MaxZoomCalls
    /\ Commit(setState(Store, opts), [op |-> "setState", opts |-> opts])
    /\ IF givesSkippedOptions(opts)
       THEN /\ setStateCalls' = setStateCalls + 1
            /\ pendingSkipped' = Append(pendingSkipped,
                                        [id |-> setStateCalls + 1, opts |-> opts,
                                         waited |-> d3Zoom = <<>>])
       ELSE UNCHANGED <<setStateCalls, pendingSkipped>>
    /\ UNCHANGED <<d3Zoom, minZoom, maxZoom, translateExtent, skippedApplied>>
    /\ zoomRequested' = [key \in DOMAIN zoomRequested |->
                             IF isGiven(opts, key) THEN opts[key] ELSE zoomRequested[key]]
    /\ initialized' = TRUE
    /\ multiSelectionActive' = IF "multiSelectionActive" \in DOMAIN opts
                               THEN opts.multiSelectionActive ELSE multiSelectionActive
    /\ isValidConnection' = IF "isValidConnection" \in DOMAIN opts
                            THEN opts.isValidConnection ELSE isValidConnection
    /\ fitViewOnInit' = IF "fitViewOnInit" \in DOMAIN opts
                        THEN opts.fitViewOnInit ELSE fitViewOnInit
    /\ applyDefault' = IF "applyDefault" \in DOMAIN opts
                       THEN opts.applyDefault ELSE applyDefault
    /\ onlyRenderVisibleElements' =
           IF "onlyRenderVisibleElements" \in DOMAIN opts
           THEN opts.onlyRenderVisibleElements ELSE onlyRenderVisibleElements
    /\ UNCHANGED <<connectionVars, viewportVars, saved, storageVars, observerVars, vueFlowRef,
                   fitViewOnInitDone, fitViewTicks>>

SetNodes(nextNodes) ==
    /\ Commit(setNodes(Store, nextNodes), [op |-> "setNodes", nodes |-> nextNodes])
    /\ UNCHANGED <<optionVars, connectionVars, viewportVars, saved, storageVars, observerVars, zoomVars,
                   viewVars>>

SetEdges(nextEdges) ==
    /\ Commit(setEdges(Store, nextEdges), [op |-> "setEdges", edges |-> nextEdges])
    /\ UNCHANGED <<optionVars, connectionVars, viewportVars, saved, storageVars, observerVars, zoomVars,
                   viewVars>>

AddNodes(nextNodes) ==
    /\ Len(nodes) + Len(nextNodes) <= MaxNodes
    /\ Commit(addNodes(Store, nextNodes), [op |-> "addNodes", nodes |-> nextNodes])
    /\ UNCHANGED <<optionVars, connectionVars, viewportVars, saved, storageVars, observerVars, zoomVars,
                   viewVars>>

AddEdges(nextEdges) ==
    /\ Len(edges) + Len(nextEdges) <= MaxEdges
    /\ Commit(addEdges(Store, nextEdges), [op |-> "addEdges", edges |-> nextEdges])
    /\ UNCHANGED <<optionVars, connectionVars, viewportVars, saved, storageVars, observerVars, zoomVars,
                   viewVars>>

(***************************************************************************)
(* Specification of the edge builders: setNodes, setEdges, addEdges on     *)
(* node collections over two ids and edges between them.                   *)
(***************************************************************************)
EdgeSpecNodes == SeqsUpTo({[id |-> i] : i \in {"a", "b"}}, MaxNodes)

\* two edges between the two ids and a self loop; which endpoint of an edge
\* is missing depends on the nodes the store holds
EdgeSpecInputs ==
    {[id |-> "e1", source |-> "a", target |-> "b"],
     [id |-> "e2", source |-> "b", target |-> "a"],
     [id |-> "e3", source |-> "a", target |-> "a"]}

EdgeSpecEdges == SeqsUpTo(EdgeSpecInputs, MaxEdges)

EdgeSpecOptions == {<<>>, [isValidConnection |-> "noSelfLoop"]}

NextEdges ==
    \/ \E opts \in EdgeSpecOptions : SetState(opts)
    \/ \E ns \in EdgeSpecNodes : SetNodes(ns)
    \/ \E es \in EdgeSpecEdges : SetEdges(es)
    \/ \E es \in EdgeSpecEdges : AddEdges(es)

SpecEdges == Init /\ [][NextEdges]_vars

\* the ids of the nodes of a collection
idsOf(coll) == {coll[i].id : i \in 1..Len(coll)}

\* C1: after setEdges(E) on an initialized store every edge of the edge
\* collection has a source and a target that are ids of nodes of the store.
C1_SetEdgesEndpointsResolve ==
    (call.op = "setEdges" /\ initialized) =>
        \A i \in 1..Len(edges) :
            edges[i].source \in idsOf(nodes) /\ edges[i].target \in idsOf(nodes)

\* C1 witness: a setEdges that retained one edge and dropped another
C1_Witness ==
    /\ call.op = "setEdges"
    /\ initialized
    /\ Len(edges) = 1
    /\ Len(call.edges) = 2
    /\ errors # <<>>

\* the error the claim expects for an edge, from the ids of the node collection
expectedErrors(e, ids) ==
    IF e.source \notin ids /\ e.target \notin ids
    THEN <<[code |-> "EDGE_SOURCE_TARGET_MISSING", id |-> e.id]>>
    ELSE IF e.source \notin ids THEN <<[code |-> "EDGE_SOURCE_MISSING", id |-> e.id]>>
    ELSE IF e.target \notin ids THEN <<[code |-> "EDGE_TARGET_MISSING", id |-> e.id]>>
    ELSE <<>>

RECURSIVE expectedErrorsOf(_, _)
expectedErrorsOf(es, ids) ==
    IF es = <<>> THEN <<>>
    ELSE expectedErrors(Head(es), ids) \o expectedErrorsOf(Tail(es), ids)

\* a setEdges call that got past the guard of the uninitialized store
SetEdgesRan == call.op = "setEdges" /\ (initialized \/ call.edges # <<>>)

\* C2 as claimed: setEdges(E) publishes exactly one error for every edge of E
\* it does not retain (as many errors as edges dropped), of the kind that names
\* the endpoints absent from the node collection, and none for a retained edge.
C2_OneErrorPerDroppedEdge ==
    SetEdgesRan =>
        /\ Len(errors) = Len(call.edges) - Len(edges)
        /\ errors = expectedErrorsOf(call.edges, idsOf(nodes))

\* C2 amended: the same, counted over the edges of E that the isValidConnection
\* predicate accepts (all of E when no predicate is set); an edge the predicate
\* rejects is dropped without an error.
C2_OneErrorPerDroppedValidEdge ==
    SetEdgesRan =>
        LET accepted == SelectSeq(call.edges, validConnection)
        IN /\ Len(errors) = Len(accepted) - Len(edges)
           /\ errors = expectedErrorsOf(accepted, idsOf(nodes))
           /\ \A i \in 1..Len(edges) : expectedErrors(edges[i], idsOf(nodes)) = <<>>

\* C2 witness: a setEdges of two edges that retained neither: the predicate
\* rejected a self loop without an error, and the other edge, its target
\* missing, was dropped with one
C2_Witness ==
    /\ SetEdgesRan
    /\ isValidConnection # Undefined
    /\ Len(call.edges) = 2
    /\ edges = <<>>
    /\ \E i \in 1..2 : call.edges[i].source = call.edges[i].target
    /\ Len(errors) = 1
    /\ errors[1].code = "EDGE_TARGET_MISSING"

\* C3 as claimed: addEdges emits no add change for an edge whose source or
\* target is not the id of a node of the node collection.
C3_AddEdgesEndpointsResolve ==
    call.op = "addEdges" =>
        \A k \in 1..Len(events) : \A i \in 1..Len(events[k].changes) :
            LET c == events[k].changes[i]
            IN c.type = "add" =>
                  c.item.source \in idsOf(nodes) /\ c.item.target \in idsOf(nodes)

(***************************************************************************)
(* Selection actions.                                                      *)
(***************************************************************************)
\* getSelectionChanges(elements, selectedIds): the selection diff of all the
\* elements against the ids, split into node changes and edge changes
getSelectionChanges(elements, selectedIds) ==
    LET Differs(el) == el.selected # (el.id \in Range(selectedIds))
        Change(el) == createSelectionChange(el.id, el.id \in Range(selectedIds))
        IsChangedNode(el) == isNode(el) /\ Differs(el)
        IsChangedEdge(el) == isEdge(el) /\ Differs(el)
        changedN == SelectSeq(elements, IsChangedNode)
        changedE == SelectSeq(elements, IsChangedEdge)
    IN [changedNodes |-> [i \in 1..Len(changedN) |-> Change(changedN[i])],
        changedEdges |-> [i \in 1..Len(changedE) |-> Change(changedE[i])]]

\* the tail of the three handlers: nodesChange, then edgesChange, each only
\* for a list that is not empty
triggerSelection(st, changedNodes, changedEdges) ==
    LET afterNodes == IF Len(changedNodes) > 0 THEN triggerNodesChange(st, changedNodes) ELSE st
    IN IF Len(changedEdges) > 0 THEN triggerEdgesChange(afterNodes, changedEdges) ELSE afterNodes

selectIds(ids, selected) == [i \in 1..Len(ids) |-> createSelectionChange(ids[i], selected)]

\* mutant of nodeSelectionHandler: the diff over all elements in both modes
nodeSelectionHandler_diffAlways(st, nodeIds, selected) ==
    LET selectionChanges == getSelectionChanges(st.nodes \o st.edges, nodeIds)
    IN triggerSelection(st, selectionChanges.changedNodes, selectionChanges.changedEdges)

nodeSelectionHandler(st, nodeIds, selected) ==
    IF multiSelectionActive
    THEN triggerSelection(st, selectIds(nodeIds, selected), <<>>)
    ELSE LET selectionChanges == getSelectionChanges(st.nodes \o st.edges, nodeIds)
         IN triggerSelection(st, selectionChanges.changedNodes, selectionChanges.changedEdges)

edgeSelectionHandler(st, edgeIds, selected) ==
    IF multiSelectionActive
    THEN triggerSelection(st, <<>>, selectIds(edgeIds, selected))
    ELSE LET selectionChanges == getSelectionChanges(st.nodes \o st.edges, edgeIds)
         IN triggerSelection(st, selectionChanges.changedNodes, selectionChanges.changedEdges)

elementSelectionHandler(st, nodeIds, edgeIds, selected) ==
    LET selectionChanges == getSelectionChanges(st.nodes \o st.edges, nodeIds \o edgeIds)
    IN IF multiSelectionActive
       THEN triggerSelection(st, selectIds(nodeIds, selected), selectIds(edgeIds, selected))
       ELSE triggerSelection(st, selectionChanges.changedNodes, selectionChanges.changedEdges)

addSelectedNodes(st, nodeIds) == nodeSelectionHandler(st, nodeIds, TRUE)

addSelectedEdges(st, edgeIds) == edgeSelectionHandler(st, edgeIds, TRUE)

addSelectedElements(st, nodeIds, edgeIds) == elementSelectionHandler(st, nodeIds, edgeIds, TRUE)

removeSelectedNodes(st, nodeIds) ==
    IF Len(nodeIds) = 0 THEN nodeSelectionHandler(st, nodeIds, FALSE)
    ELSE triggerNodesChange(st, selectIds(nodeIds, FALSE))

removeSelectedEdges(st, edgeIds) ==
    IF Len(edgeIds) = 0 THEN edgeSelectionHandler(st, edgeIds, FALSE)
    ELSE triggerEdgesChange(st, selectIds(edgeIds, FALSE))

removeSelectedElements(st, nodeIds, edgeIds) ==
    IF Len(nodeIds) + Len(edgeIds) = 0 THEN elementSelectionHandler(st, <<>>, <<>>, FALSE)
    ELSE triggerSelection(st, selectIds(nodeIds, FALSE), selectIds(edgeIds, FALSE))

\* the ids of a list of elements (nodes.map((n) => n.id))
idSeq(els) == [i \in 1..Len(els) |-> els[i].id]

\* the argument lists of the selection actions: elements of the store
NodeTargets == SubSeqs(nodes, MaxTargets)

EdgeTargets == SubSeqs(edges, MaxTargets)

AddSelectedNodes(targets) ==
    /\ Commit(addSelectedNodes(Store, idSeq(targets)),
              [op |-> "addSelectedNodes", nodeIds |-> idSeq(targets), edgeIds |-> <<>>])
    /\ UNCHANGED <<optionVars, connectionVars, viewportVars, saved, storageVars, observerVars, zoomVars,
                   viewVars>>

AddSelectedEdges(targets) ==
    /\ Commit(addSelectedEdges(Store, idSeq(targets)),
              [op |-> "addSelectedEdges", nodeIds |-> <<>>, edgeIds |-> idSeq(targets)])
    /\ UNCHANGED <<optionVars, connectionVars, viewportVars, saved, storageVars, observerVars, zoomVars,
                   viewVars>>

AddSelectedElements(nodeTargets, edgeTargets) ==
    /\ Commit(addSelectedElements(Store, idSeq(nodeTargets), idSeq(edgeTargets)),
              [op |-> "addSelectedElements", nodeIds |-> idSeq(nodeTargets),
               edgeIds |-> idSeq(edgeTargets)])
    /\ UNCHANGED <<optionVars, connectionVars, viewportVars, saved, storageVars, observerVars, zoomVars,
                   viewVars>>

RemoveSelectedNodes(targets) ==
    /\ Commit(removeSelectedNodes(Store, idSeq(targets)),
              [op |-> "removeSelectedNodes", nodeIds |-> idSeq(targets), edgeIds |-> <<>>])
    /\ UNCHANGED <<optionVars, connectionVars, viewportVars, saved, storageVars, observerVars, zoomVars,
                   viewVars>>

RemoveSelectedEdges(targets) ==
    /\ Commit(removeSelectedEdges(Store, idSeq(targets)),
              [op |-> "removeSelectedEdges", nodeIds |-> <<>>, edgeIds |-> idSeq(targets)])
    /\ UNCHANGED <<optionVars, connectionVars, viewportVars, saved, storageVars, observerVars, zoomVars,
                   viewVars>>

RemoveSelectedElements(nodeTargets, edgeTargets) ==
    /\ Commit(removeSelectedElements(Store, idSeq(nodeTargets), idSeq(edgeTargets)),
              [op |-> "removeSelectedElements", nodeIds |-> idSeq(nodeTargets),
               edgeIds |-> idSeq(edgeTargets)])
    /\ UNCHANGED <<optionVars, connectionVars, viewportVars, saved, storageVars, observerVars, zoomVars,
                   viewVars>>

(***************************************************************************)
(* Specification of the selection actions: two nodes, two edges between    *)
(* them, one of which has the id of a node.                                *)
(***************************************************************************)
SelectSpecNodes == DistinctIdSeqs({[id |-> i] : i \in {"a", "b"}}, MaxNodes)

SelectSpecEdges ==
    DistinctIdSeqs({[id |-> i, source |-> "a", target |-> "b"] : i \in {"e1", "a"}}, MaxEdges)

SelectSpecOptions == {[multiSelectionActive |-> m] : m \in BOOLEAN}

NextSelect ==
    \/ \E opts \in SelectSpecOptions : SetState(opts)
    \/ \E ns \in SelectSpecNodes : SetNodes(ns)
    \/ \E es \in SelectSpecEdges : SetEdges(es)
    \/ \E t \in NodeTargets : AddSelectedNodes(t)
    \/ \E t \in EdgeTargets : AddSelectedEdges(t)
    \/ \E tn \in NodeTargets, te \in EdgeTargets : AddSelectedElements(tn, te)
    \/ \E t \in NodeTargets : RemoveSelectedNodes(t)
    \/ \E t \in EdgeTargets : RemoveSelectedEdges(t)

SpecSelect == InitCreated /\ [][NextSelect]_vars

\* the ids of the selected elements of a collection
selectedIds(coll) == {coll[i].id : i \in {j \in 1..Len(coll) : coll[j].selected}}

\* C4 as claimed: in single-selection mode under the default wiring, after
\* addSelectedNodes(T), addSelectedEdges(T) or addSelectedElements(T) the
\* selected elements are exactly T: the selected nodes are the nodes of T and
\* the selected edges are the edges of T (none for addSelectedNodes).
C4_SingleSelectionExactlyTargets ==
    (/\ call.op \in {"addSelectedNodes", "addSelectedEdges", "addSelectedElements"}
     /\ ~multiSelectionActive
     /\ applyDefault) =>
        /\ selectedIds(nodes) = Range(call.nodeIds)
        /\ selectedIds(edges) = Range(call.edgeIds)

(***************************************************************************)
(* removeNodes / removeEdges.                                              *)
(***************************************************************************)
\* isDef(el.deletable) ? el.deletable : true
deletableOrDefault(el) == IF "deletable" \in DOMAIN el THEN el.deletable ELSE TRUE

\* mutant of createEdgeRemovalChanges: only the edges leaving the nodes
createEdgeRemovalChanges_outgoing(st, ns) ==
    LET Leaves(e) == e.source \in idsOf(ns) /\ deletableOrDefault(e)
        connections == SelectSeq(st.edges, Leaves)
    IN [i \in 1..Len(connections) |-> createEdgeRemoveChange(connections[i])]

\* createEdgeRemovalChanges(nodes): remove changes for the deletable edges
\* connected to the nodes
createEdgeRemovalChanges(st, ns) ==
    LET connections == SelectSeq(getConnectedEdgesBase(ns, st.edges), deletableOrDefault)
    IN [i \in 1..Len(connections) |-> createEdgeRemoveChange(connections[i])]

\* createChildrenRemovalChanges(id): the changes it pushes, in order.  The
\* recursion has no guard of its own: a chain of calls longer than the node
\* list follows a cycle of parentNode references and never returns (overflow).
RECURSIVE createChildrenRemovalChanges(_, _, _, _)
RECURSIVE removeEachChild(_, _, _, _)
\* mutant of createChildrenRemovalChanges: the children, not their children
createChildrenRemovalChanges_flat(st, id, removeConnectedEdges, depth) ==
    LET IsChild(n) == Get(n, "parentNode") = id
        children == SelectSeq(st.nodes, IsChild)
    IN [nodeChanges |-> [i \in 1..Len(children) |-> createNodeRemoveChange(children[i].id)],
        edgeChanges |-> IF removeConnectedEdges
                        THEN createEdgeRemovalChanges(st, children) ELSE <<>>,
        overflow |-> FALSE]

createChildrenRemovalChanges(st, id, removeConnectedEdges, depth) ==
    IF depth > Len(st.nodes)
    THEN [nodeChanges |-> <<>>, edgeChanges |-> <<>>, overflow |-> TRUE]
    ELSE LET IsChild(n) == Get(n, "parentNode") = id
             children == SelectSeq(st.nodes, IsChild)
             rest == removeEachChild(st, children, removeConnectedEdges, depth + 1)
         IN IF Len(children) = 0
            THEN [nodeChanges |-> <<>>, edgeChanges |-> <<>>, overflow |-> FALSE]
            ELSE [nodeChanges |-> [i \in 1..Len(children) |-> createNodeRemoveChange(children[i].id)]
                                  \o rest.nodeChanges,
                  edgeChanges |-> (IF removeConnectedEdges
                                   THEN createEdgeRemovalChanges(st, children) ELSE <<>>)
                                  \o rest.edgeChanges,
                  overflow |-> rest.overflow]

\* for (const child of children) createChildrenRemovalChanges(child.id)
removeEachChild(st, children, removeConnectedEdges, depth) ==
    IF children = <<>>
    THEN [nodeChanges |-> <<>>, edgeChanges |-> <<>>, overflow |-> FALSE]
    ELSE LET first == createChildrenRemovalChanges(st, Head(children).id, removeConnectedEdges, depth)
         IN IF first.overflow THEN first
            ELSE LET others == removeEachChild(st, Tail(children), removeConnectedEdges, depth)
                 IN [nodeChanges |-> first.nodeChanges \o others.nodeChanges,
                     edgeChanges |-> first.edgeChanges \o others.edgeChanges,
                     overflow |-> others.overflow]

\* mutant of skipsTarget: the deletable flag is read the wrong way round
skipsTarget_negated(st, item) ==
    \/ findNode(st.nodes, item) = <<>>
    \/ /\ "deletable" \in DOMAIN findNode(st.nodes, item)[1]
       /\ findNode(st.nodes, item)[1].deletable

\* mutant of skipsTarget: only the items the store does not hold
skipsTarget_unknownOnly(st, item) == findNode(st.nodes, item) = <<>>

\* whether the loop of removeNodes skips an item: unknown, or not deletable
skipsTarget(st, item) ==
    \/ findNode(st.nodes, item) = <<>>
    \/ ~deletableOrDefault(findNode(st.nodes, item)[1])

\* the loop of removeNodes over nodesToRemove: the changes collected
RECURSIVE removeNodesLoop(_, _, _, _)
removeNodesLoop(st, nodesToRemove, removeConnectedEdges, removeChildren) ==
    IF nodesToRemove = <<>>
    THEN [nodeChanges |-> <<>>, edgeChanges |-> <<>>, overflow |-> FALSE]
    ELSE LET item == Head(nodesToRemove)
             currNode == findNode(st.nodes, item)[1]
             own == IF skipsTarget(st, item)
                    THEN [nodeChanges |-> <<>>, edgeChanges |-> <<>>, overflow |-> FALSE]
                    ELSE LET below == IF removeChildren
                                      THEN createChildrenRemovalChanges(st, currNode.id, removeConnectedEdges, 1)
                                      ELSE [nodeChanges |-> <<>>, edgeChanges |-> <<>>, overflow |-> FALSE]
                         IN [nodeChanges |-> <<createNodeRemoveChange(currNode.id)>> \o below.nodeChanges,
                             edgeChanges |-> (IF removeConnectedEdges
                                              THEN createEdgeRemovalChanges(st, <<currNode>>) ELSE <<>>)
                                             \o below.edgeChanges,
                             overflow |-> below.overflow]
         IN IF own.overflow THEN own
            ELSE LET others == removeNodesLoop(st, Tail(nodesToRemove), removeConnectedEdges, removeChildren)
                 IN [nodeChanges |-> own.nodeChanges \o others.nodeChanges,
                     edgeChanges |-> own.edgeChanges \o others.edgeChanges,
                     overflow |-> others.overflow]

\* mutant of removeNodesTriggers: the node batch is delivered first
removeNodesTriggers_nodesFirst(st, nodeChanges, edgeChanges) ==
    LET afterNodes == IF Len(nodeChanges) > 0 THEN triggerNodesChange(st, nodeChanges) ELSE st
    IN IF Len(edgeChanges) > 0 THEN triggerEdgesChange(afterNodes, edgeChanges) ELSE afterNodes

\* the tail of removeNodes: edgesChange, then nodesChange, each only for a
\* batch that is not empty
removeNodesTriggers(st, nodeChanges, edgeChanges) ==
    LET afterEdges == IF Len(edgeChanges) > 0 THEN triggerEdgesChange(st, edgeChanges) ELSE st
    IN IF Len(nodeChanges) > 0 THEN triggerNodesChange(afterEdges, nodeChanges) ELSE afterEdges

\* removeNodes(nodes, removeConnectedEdges, removeChildren); a call whose
\* recursion overflows throws before any hook is triggered
removeNodes(st, nodesToRemove, removeConnectedEdges, removeChildren) ==
    LET collected == removeNodesLoop(st, nodesToRemove, removeConnectedEdges, removeChildren)
    IN IF collected.overflow THEN [st EXCEPT !.threw = TRUE]
       ELSE removeNodesTriggers(st, collected.nodeChanges, collected.edgeChanges)

\* the skip test of the loop of removeEdges
skipsEdge(st, item) ==
    \/ findEdge(st.edges, item) = <<>>
    \/ ~deletableOrDefault(findEdge(st.edges, item)[1])

removeEdges(st, edgesToRemove) ==
    LET Removable(item) == ~skipsEdge(st, item)
        kept == SelectSeq(edgesToRemove, Removable)
        changes == [i \in 1..Len(kept) |-> createEdgeRemoveChange(findEdge(st.edges, kept[i])[1])]
    IN triggerEdgesChange(st, changes)

RemoveNodes(targets, removeConnectedEdges, removeChildren) ==
    LET r == removeNodes(Store, targets, removeConnectedEdges, removeChildren)
    IN /\ Commit(r, [op |-> "removeNodes", targets |-> targets,
                     removeConnectedEdges |-> removeConnectedEdges,
                     removeChildren |-> removeChildren, threw |-> r.threw])
       /\ UNCHANGED <<optionVars, connectionVars, viewportVars, saved, storageVars, observerVars, zoomVars,
                   viewVars>>

RemoveEdges(targets) ==
    /\ Commit(removeEdges(Store, targets), [op |-> "removeEdges", targets |-> targets])
    /\ UNCHANGED <<optionVars, connectionVars, viewportVars, saved, storageVars, observerVars, zoomVars,
                   viewVars>>

(***************************************************************************)
(* Specification of removal: a family of nodes a, b, c, ... in which every *)
(* node but the first is the child of one of the two before it; the first  *)
(* may be its own parent, the first two may be not deletable.  Edges join  *)
(* a to b and b to c, one of them may be not deletable.                    *)
(***************************************************************************)
IdPool == <<"a", "b", "c", "d">>

\* the records the k-th node of the family may be declared with
nodeVariants(k) ==
    IF k = 1
    THEN {[id |-> IdPool[1]],
          [id |-> IdPool[1], deletable |-> FALSE],
          [id |-> IdPool[1], parentNode |-> IdPool[1]]}
    ELSE IF k = 2
    THEN {[id |-> IdPool[2], parentNode |-> IdPool[1]],
          [id |-> IdPool[2], parentNode |-> IdPool[1], deletable |-> FALSE]}
    ELSE {[id |-> IdPool[k], parentNode |-> IdPool[k - 1]],
          [id |-> IdPool[k], parentNode |-> IdPool[k - 2]]}

\* the families of n nodes, and of up to n nodes
RECURSIVE familiesOf(_)
familiesOf(n) ==
    IF n = 0 THEN {<<>>}
    ELSE {Append(f, v) : f \in familiesOf(n - 1), v \in nodeVariants(n)}

RemoveSpecNodes == UNION {familiesOf(n) : n \in 0..MaxNodes}

RemoveSpecEdges ==
    UNION {SubSeqs(<<e1, [id |-> "e2", source |-> "b", target |-> "c"]>>, MaxEdges) :
              e1 \in {[id |-> "e1", source |-> "a", target |-> "b"],
                      [id |-> "e1", source |-> "a", target |-> "b", deletable |-> FALSE]}}

RemoveTargets == SubSeqs(idSeq(nodes), MaxTargets)

\* the graph is declared once, nodes then edges, and then taken apart
NextRemove ==
    \/ call.op = "create" /\ \E ns \in RemoveSpecNodes : SetNodes(ns)
    \/ call.op = "setNodes" /\ \E es \in RemoveSpecEdges : SetEdges(es)
    \/ \E t \in RemoveTargets, rce \in BOOLEAN, rc \in BOOLEAN : RemoveNodes(t, rce, rc)
    \/ \E t \in SubSeqs(idSeq(edges), MaxTargets) : RemoveEdges(t)

SpecRemove == InitCreated /\ [][NextRemove]_vars

\* the ids of the set S of nodes and of all their descendants along parentNode
RECURSIVE withDescendants(_, _)
withDescendants(ns, S) ==
    LET next == S \cup {ns[i].id : i \in {j \in 1..Len(ns) : Get(ns[j], "parentNode") \in S}}
    IN IF next = S THEN S ELSE withDescendants(ns, next)

\* an edge with an endpoint in the set S of node ids
incident(e, S) == e.source \in S \/ e.target \in S

\* a removeNodes(P, true, true) step under the default wiring
RemovesWithChildren ==
    /\ call'.op = "removeNodes"
    /\ Len(call'.targets) = 1
    /\ call'.removeConnectedEdges
    /\ call'.removeChildren
    /\ applyDefault

RemovesWithDefaults ==
    /\ call'.op = "removeNodes"
    /\ call'.removeConnectedEdges
    /\ ~call'.removeChildren
    /\ applyDefault

triggersOf(hook) == {k \in 1..Len(events) : events[k].hook = hook}

\* C7: within one removeNodes call each of edgesChange and nodesChange is
\* triggered at most once, and edgesChange before nodesChange.
C7_EdgesBeforeNodesOnce ==
    call.op = "removeNodes" =>
        /\ Cardinality(triggersOf("edgesChange")) <= 1
        /\ Cardinality(triggersOf("nodesChange")) <= 1
        /\ \A i \in triggersOf("edgesChange"), j \in triggersOf("nodesChange") : i < j

\* C7 witness: a removeNodes call that delivered both batches
C7_Witness ==
    /\ call.op = "removeNodes"
    /\ triggersOf("edgesChange") # {}
    /\ triggersOf("nodesChange") # {}

(***************************************************************************)
(* updateNodeDimensions.  An update carries what the DOM reports for its   *)
(* nodeElement: getDimensions gives width and height, getHandleBounds the  *)
(* handles of the element.                                                 *)
(***************************************************************************)
getDimensions(update) == [width |-> update.width, height |-> update.height]

getHandleBounds(type, update) == <<type, update.handles>>

\* mutant of doUpdate: the measurement is not compared with the node's
doUpdate_unconditional(node, update) ==
    getDimensions(update).width # 0 /\ getDimensions(update).height # 0

doUpdate(node, update) ==
    LET dimensions == getDimensions(update)
    IN /\ dimensions.width # 0
       /\ dimensions.height # 0
       /\ \/ node.dimensions.width # dimensions.width
          \/ node.dimensions.height # dimensions.height
          \/ update.forceUpdate

\* the writes to the node found for the update
measureNode(node, update) ==
    Assign(node, [handleBounds |-> [source |-> getHandleBounds(".source", update),
                                    target |-> getHandleBounds(".target", update)],
                  dimensions |-> getDimensions(update),
                  initialized |-> TRUE])

\* the position of the node findNode returns
indexOfNode(ns, id) == MaxOf({i \in 1..Len(ns) : ns[i].id = id})

\* mutant of updateNodeDimensionsReduce: an update whose node is not found
\* ends the batch
RECURSIVE updateNodeDimensionsReduce_stopsAtMissing(_, _, _)
updateNodeDimensionsReduce_stopsAtMissing(ns, updates, res) ==
    IF updates = <<>> THEN [nodes |-> ns, changes |-> res]
    ELSE LET update == Head(updates)
             node == findNode(ns, update.id)
         IN IF node = <<>> THEN [nodes |-> ns, changes |-> res]
            ELSE IF doUpdate(node[1], update)
            THEN updateNodeDimensionsReduce_stopsAtMissing(
                     [ns EXCEPT ![indexOfNode(ns, update.id)] = measureNode(@, update)],
                     Tail(updates),
                     Append(res, [id |-> node[1].id, type |-> "dimensions",
                                  dimensions |-> getDimensions(update)]))
            ELSE updateNodeDimensionsReduce_stopsAtMissing(ns, Tail(updates), res)

RECURSIVE updateNodeDimensionsReduce(_, _, _)
updateNodeDimensionsReduce(ns, updates, res) ==
    IF updates = <<>> THEN [nodes |-> ns, changes |-> res]
    ELSE LET update == Head(updates)
             node == findNode(ns, update.id)
         IN IF node # <<>> /\ doUpdate(node[1], update)
            THEN updateNodeDimensionsReduce(
                     [ns EXCEPT ![indexOfNode(ns, update.id)] = measureNode(@, update)],
                     Tail(updates),
                     Append(res, [id |-> node[1].id, type |-> "dimensions",
                                  dimensions |-> getDimensions(update)]))
            ELSE updateNodeDimensionsReduce(ns, Tail(updates), res)

\* pane: whether vueFlowRef holds the transformation pane
updateNodeDimensions(st, updates, pane) ==
    IF vueFlowRef = Null \/ ~pane THEN st
    ELSE LET r == updateNodeDimensionsReduce(st.nodes, updates, <<>>)
             measured == [st EXCEPT !.nodes = r.nodes]
         IN IF Len(r.changes) > 0 THEN triggerNodesChange(measured, r.changes) ELSE measured

\* whether the call queues the fitView of the first measurement
queuesFitView(pane) ==
    vueFlowRef # Null /\ pane /\ ~fitViewOnInitDone /\ fitViewOnInit

UpdateNodeDimensions(updates, pane) ==
    /\ queuesFitView(pane) => fitViewTicks < MaxTicks
    /\ Commit(updateNodeDimensions(Store, updates, pane),
              [op |-> "updateNodeDimensions", updates |-> updates, pane |-> pane])
    /\ fitViewTicks' = IF queuesFitView(pane) THEN fitViewTicks + 1 ELSE fitViewTicks
    /\ UNCHANGED <<optionVars, connectionVars, viewportVars, saved, storageVars, observerVars, zoomVars, vueFlowRef,
                   fitViewOnInit, fitViewOnInitDone>>

\* what fitView makes of the viewport: the box of the nodes fitted to the pane
FittedViewport == [x |-> 5, y |-> 5, zoom |-> 2]

\* the nextTick callback of updateNodeDimensions: fitView, then the flag; the
\* viewport is fitted, or left as it is when there is nothing to fit
FitViewOnInit ==
    /\ fitViewTicks > 0
    /\ viewport' \in {viewport, FittedViewport}
    /\ fitViewTicks' = fitViewTicks - 1
    /\ fitViewOnInitDone' = TRUE
    /\ events' = <<>>
    /\ errors' = <<>>
    /\ call' = [op |-> "fitViewOnInit", done |-> fitViewOnInitDone]
    /\ UNCHANGED <<nodes, edges, connectionLookup, optionVars, connectionVars,
                   viewportInitialized, pendingViewports, saved, storageVars, observerVars, zoomVars, vueFlowRef,
                   fitViewOnInit>>

(***************************************************************************)
(* Specification of the measurement: a mounted or unmounted flow with up   *)
(* to two nodes, measured one node at a time or in batches that may name   *)
(* a node twice; an update may name a node the store does not hold.        *)
(***************************************************************************)
InitDimensions ==
    /\ nodes = <<>>
    /\ edges = <<>>
    /\ connectionLookup = {}
    /\ initialized = TRUE
    /\ multiSelectionActive = FALSE
    /\ isValidConnection = Undefined
    /\ applyDefault = TRUE
    /\ onlyRenderVisibleElements = FALSE
    /\ connectionStartHandle = Null
    /\ connectionClickStartHandle = Null
    /\ connectionEndHandle = Null
    /\ connectionStatus = Null
    /\ connectionPosition = NoPosition
    /\ vueFlowRef \in {Null, "div.vue-flow"}
    /\ fitViewOnInit = FALSE
    /\ fitViewOnInitDone = FALSE
    /\ fitViewTicks = 0
    /\ viewport = [x |-> 0, y |-> 0, zoom |-> 1]
    /\ viewportInitialized = FALSE
    /\ pendingViewports = <<>>
    /\ saved = <<>>
    /\ ZoomAsCreated
    /\ resizeObserver = Null
    /\ resizeTicks = <<>>
    /\ flows = <<>>
    /\ stores = <<>>
    /\ events = <<>>
    /\ errors = <<>>
    /\ call = [op |-> "create"]

DimensionSpecNodes == {<<>>, <<[id |-> "a"]>>, <<[id |-> "a"], [id |-> "b"]>>}

DimensionSpecMeasures ==
    {[width |-> 0, height |-> 10], [width |-> 10, height |-> 10], [width |-> 10, height |-> 20]}

DimensionSpecUpdate ==
    {[id |-> i, forceUpdate |-> f, width |-> m.width, height |-> m.height, handles |-> h] :
        i \in {"a", "b"}, f \in BOOLEAN, m \in DimensionSpecMeasures, h \in {"h1", "h2"}}

\* the updates of the batches: not forced, one handle geometry, a box
DimensionSpecBatchUpdate ==
    {u \in DimensionSpecUpdate : ~u.forceUpdate /\ u.handles = "h1" /\ u.width # 0}

DimensionSpecUpdates ==
    {<<u>> : u \in DimensionSpecUpdate} \cup SeqsUpTo(DimensionSpecBatchUpdate, MaxUpdates)

NextDimensions ==
    \/ call.op = "create" /\ \E ns \in DimensionSpecNodes : SetNodes(ns)
    \/ call.op \in {"create", "setNodes"} /\ SetState([fitViewOnInit |-> TRUE])
    \/ \E u \in DimensionSpecUpdates, pane \in BOOLEAN :
           /\ queuesFitView(pane) => fitViewTicks = 0
           /\ UpdateNodeDimensions(u, pane)
    \/ FitViewOnInit

SpecDimensions == InitDimensions /\ [][NextDimensions]_vars

\* the updates of a batch that name the node
updatesOf(updates, id) == {k \in 1..Len(updates) : updates[k].id = id}

\* an update that is not forced and measures the node at its dimensions
sameMeasurement(update, node) ==
    /\ ~update.forceUpdate
    /\ update.width = node.dimensions.width
    /\ update.height = node.dimensions.height

\* the dimensions changes the last action delivered for the node
dimensionChangesOf(log, id) ==
    {<<k, j>> \in {<<k, j>> \in (1..Len(log)) \X (1..MaxUpdates + 1) : j <= Len(log[k].changes)} :
        log[k].changes[j].type = "dimensions" /\ log[k].changes[j].id = id}

\* C8: an updateNodeDimensions whose updates for a node are not forced and
\* measure the node at its current dimensions emits no dimensions change for
\* the node and leaves its dimensions, handleBounds and initialized flag as
\* they were; nodesChange is never triggered with an empty batch, and is not
\* triggered at all when every update of the call is such an update.
C8_SameMeasurementSuppressed ==
    [][call'.op = "updateNodeDimensions" =>
          /\ \A i \in 1..Len(nodes) :
                (/\ updatesOf(call'.updates, nodes[i].id) # {}
                 /\ \A k \in updatesOf(call'.updates, nodes[i].id) :
                       sameMeasurement(call'.updates[k], nodes[i])) =>
                    /\ dimensionChangesOf(events', nodes[i].id) = {}
                    /\ nodes'[i].dimensions = nodes[i].dimensions
                    /\ nodes'[i].handleBounds = nodes[i].handleBounds
                    /\ nodes'[i].initialized = nodes[i].initialized
          /\ \A k \in 1..Len(events') : events'[k].changes # <<>>
          /\ (\A k \in 1..Len(call'.updates) :
                 \E i \in 1..Len(nodes) :
                     /\ nodes[i].id = call'.updates[k].id
                     /\ sameMeasurement(call'.updates[k], nodes[i])) => events' = <<>>]_vars

\* C8 witness: a mounted flow whose measured node a is measured again, not
\* forced, at the dimensions it has, and nothing is delivered
C8_Witness ==
    /\ call.op = "updateNodeDimensions"
    /\ vueFlowRef # Null
    /\ call.pane
    /\ Len(call.updates) = 1
    /\ events = <<>>
    /\ \E i \in 1..Len(nodes) :
          /\ nodes[i].id = call.updates[1].id
          /\ nodes[i].initialized
          /\ sameMeasurement(call.updates[1], nodes[i])
          /\ nodes[i].handleBounds.source # getHandleBounds(".source", call.updates[1])

(***************************************************************************)
(* toObject / fromObject.  A data payload is a record of values; a value   *)
(* is a string, and the strings "undefined", "function" and "NaN" stand    *)
(* for the values JSON has no text for.                                    *)
(***************************************************************************)
\* JSON.parse(JSON.stringify(data)): a key whose value is undefined or a
\* function is left out, NaN comes back as null
jsonData(data) ==
    [k \in {j \in DOMAIN data : data[j] \notin {Undefined, "function"}} |->
        IF data[k] = "NaN" THEN Null ELSE data[k]]

\* JSON.parse(JSON.stringify(el)) of an exported node or edge; ids, flags and
\* finite coordinates come back as they were
jsonElement(el) ==
    [k \in DOMAIN el |-> IF k = "data" THEN jsonData(el[k]) ELSE el[k]]

nodeInternals ==
    {"computedPosition", "handleBounds", "selected", "dimensions", "isParent",
     "resizing", "dragging", "initialized", "events"}

edgeInternals == {"selected", "sourceNode", "targetNode", "events"}

toObject(st) ==
    [nodes |-> [i \in 1..Len(st.nodes) |-> jsonElement(Omit(st.nodes[i], nodeInternals))],
     edges |-> [i \in 1..Len(st.edges) |-> jsonElement(Omit(st.edges[i], edgeInternals))],
     position |-> <<viewport.x, viewport.y>>,
     zoom |-> viewport.zoom,
     viewport |-> viewport]

\* mutant of fromObjectElements: the edges of the snapshot before its nodes
fromObjectElements_edgesFirst(st, obj) ==
    LET withEdges == IF "edges" \in DOMAIN obj THEN setEdges(st, obj.edges) ELSE st
    IN IF "nodes" \in DOMAIN obj THEN setNodes(withEdges, obj.nodes) ELSE withEdges

\* the nodes and the edges of the snapshot, the nodes first
fromObjectElements(st, obj) ==
    LET withNodes == IF "nodes" \in DOMAIN obj THEN setNodes(st, obj.nodes) ELSE st
    IN IF "edges" \in DOMAIN obj THEN setEdges(withNodes, obj.edges) ELSE withNodes

\* (viewport?.x && viewport?.y) || position
restoresViewport(obj) ==
    \/ "viewport" \in DOMAIN obj /\ obj.viewport.x # 0 /\ obj.viewport.y # 0
    \/ "position" \in DOMAIN obj

\* a || b on numbers: 0 is falsy
orElse(a, b) == IF a # 0 THEN a ELSE b

\* the viewport fromObject hands to setViewport
fromObjectViewport(obj) ==
    LET given == IF "viewport" \in DOMAIN obj THEN obj.viewport ELSE [x |-> 0, y |-> 0, zoom |-> 0]
        position == IF "position" \in DOMAIN obj THEN obj.position ELSE <<0, 0>>
        zoom == IF "zoom" \in DOMAIN obj THEN obj.zoom ELSE 0
    IN [x |-> orElse(given.x, position[1]),
        y |-> orElse(given.y, position[2]),
        zoom |-> orElse(given.zoom, orElse(zoom, viewport.zoom))]

fromObjectResolves_atOnce(obj) == TRUE

\* whether fromObject resolves its promise in the call itself (the else
\* branch) or leaves that to the continuation of setViewport
fromObjectResolves(obj) == ~restoresViewport(obj)

\* toObject(): the caller keeps the snapshot; next to it the model keeps the
\* collections it was taken from
ToObject ==
    /\ saved' = <<[obj |-> toObject(Store), nodes |-> nodes, edges |-> edges]>>
    /\ events' = <<>>
    /\ errors' = <<>>
    /\ call' = [op |-> "toObject"]
    /\ UNCHANGED <<nodes, edges, connectionLookup, optionVars, connectionVars, viewVars,
                   viewportVars, zoomVars, observerVars, storageVars>>

\* fromObject(obj); fresh: the store has just been created, unchanged: its
\* collections are those the kept snapshot was taken from
FromObject(obj) ==
    /\ restoresViewport(obj) => Len(pendingViewports) < MaxTicks
    /\ Commit(fromObjectElements(Store, obj),
              [op |-> "fromObject", obj |-> obj, fresh |-> call.op = "create",
               resolved |-> fromObjectResolves(obj),
               unchanged |-> saved # <<>> /\ saved[1].nodes = nodes /\ saved[1].edges = edges])
    /\ pendingViewports' = IF restoresViewport(obj)
                           THEN Append(pendingViewports, fromObjectViewport(obj))
                           ELSE pendingViewports
    /\ UNCHANGED <<optionVars, connectionVars, viewVars, viewport, viewportInitialized, saved, storageVars, observerVars, zoomVars>>

\* the state Storage.create builds: useState(), then setState
CreatedState ==
    /\ nodes' = <<>>
    /\ edges' = <<>>
    /\ connectionLookup' = {}
    /\ initialized' = TRUE
    /\ multiSelectionActive' = FALSE
    /\ isValidConnection' = Undefined
    /\ applyDefault' = TRUE
    /\ onlyRenderVisibleElements' = FALSE
    /\ connectionStartHandle' = Null
    /\ connectionClickStartHandle' = Null
    /\ connectionEndHandle' = Null
    /\ connectionStatus' = Null
    /\ connectionPosition' = NoPosition
    /\ vueFlowRef' = Null
    /\ fitViewOnInit' = FALSE
    /\ fitViewOnInitDone' = FALSE
    /\ fitViewTicks' = 0
    /\ viewport' = [x |-> 0, y |-> 0, zoom |-> 1]
    /\ viewportInitialized' = FALSE
    /\ pendingViewports' = <<>>
    /\ events' = <<>>
    /\ errors' = <<>>
    /\ d3Zoom' = <<>>
    /\ minZoom' = DefaultZoom.minZoom
    /\ maxZoom' = DefaultZoom.maxZoom
    /\ translateExtent' = DefaultZoom.translateExtent
    /\ pendingSkipped' = <<>>
    /\ setStateCalls' = 0
    /\ skippedApplied' = <<>>
    /\ zoomRequested' = DefaultZoom
    /\ resizeObserver' = Null
    /\ resizeTicks' = <<>>

\* Storage.create: another store, initialized; the snapshot stays with the
\* caller, and the registry is not followed here (StorageCreate follows it)
Create ==
    /\ CreatedState
    /\ call' = [op |-> "create"]
    /\ UNCHANGED <<saved, storageVars>>

\* the pan-zoom engine is attached and the viewport helper is ready
ViewportReady ==
    /\ ~viewportInitialized
    /\ viewportInitialized' = TRUE
    /\ events' = <<>>
    /\ errors' = <<>>
    /\ call' = [op |-> "viewportInitialized"]
    /\ UNCHANGED <<nodes, edges, connectionLookup, optionVars, connectionVars, viewVars,
                   viewport, pendingViewports, saved, storageVars, observerVars, zoomVars>>

\* the continuation of fromObject: setViewport once the helper is ready, and
\* resolve(true) once setViewport is done
SetViewport ==
    /\ viewportInitialized
    /\ pendingViewports # <<>>
    /\ viewport' = Head(pendingViewports)
    /\ pendingViewports' = Tail(pendingViewports)
    /\ events' = <<>>
    /\ errors' = <<>>
    /\ call' = [op |-> "setViewport", viewport |-> Head(pendingViewports)]
    /\ UNCHANGED <<nodes, edges, connectionLookup, optionVars, connectionVars, viewVars,
                   viewportInitialized, saved, storageVars, observerVars, zoomVars>>

(***************************************************************************)
(* Specification of the snapshot: a graph is declared (nodes with and      *)
(* without payloads JSON cannot hold, edges a -> b and b -> b), a          *)
(* predicate may be configured and nodes may be removed without their      *)
(* edges; the store is exported, and the snapshot is imported into the     *)
(* store or into a store just created.                                     *)
(***************************************************************************)
SnapshotSpecData ==
    {[label |-> "A"], [label |-> "A", onClick |-> "function"], [value |-> "NaN"]}

SnapshotSpecNodes ==
    {<<>>, <<[id |-> "a"]>>}
    \cup {<<[id |-> "a", position |-> [x |-> 5, y |-> 7], data |-> d], [id |-> "b"]>> :
             d \in SnapshotSpecData}

SnapshotSpecEdges ==
    SubSeqs(<<[id |-> "e1", source |-> "a", target |-> "b"],
              [id |-> "e2", source |-> "b", target |-> "b"]>>, MaxEdges)

SnapshotSpecObjects ==
    IF saved = <<>> THEN {}
    ELSE {saved[1].obj, Omit(saved[1].obj, {"position", "viewport"})}

NextSnapshot ==
    \/ call.op = "create" /\ saved = <<>> /\ \E ns \in SnapshotSpecNodes : SetNodes(ns)
    \/ call.op = "setNodes" /\ \E es \in SnapshotSpecEdges : SetEdges(es)
    \/ call.op = "setEdges" /\ SetState([isValidConnection |-> "noSelfLoop"])
    \/ /\ call.op \in {"setEdges", "setState"}
       /\ \E t \in SubSeqs(idSeq(nodes), 1) : RemoveNodes(t, FALSE, FALSE)
    \/ saved = <<>> /\ ToObject
    \/ saved # <<>> /\ call.op # "create" /\ Create
    \/ \E obj \in SnapshotSpecObjects : FromObject(obj)
    \/ ViewportReady
    \/ SetViewport

SpecSnapshot == InitCreated /\ [][NextSnapshot]_vars

\* what the round trip is to keep of a node and of an edge
nodeContents(ns) ==
    [i \in 1..Len(ns) |-> [id |-> ns[i].id, position |-> ns[i].position, data |-> ns[i].data]]

edgeContents(es) ==
    [i \in 1..Len(es) |-> [id |-> es[i].id, source |-> es[i].source, target |-> es[i].target]]

\* the last action was fromObject(toObject()) on the exported store, its
\* collections as they were at the export, or on a store just created
RoundTripRan ==
    /\ call.op = "fromObject"
    /\ saved # <<>>
    /\ call.obj = saved[1].obj
    /\ call.fresh \/ call.unchanged

\* C9 as claimed: for every store state fromObject(toObject()) on the store,
\* or on a fresh initialized store, yields nodes and edges with the ids,
\* positions and data they had before the export.
C9_RoundTripKeepsContents ==
    RoundTripRan =>
        /\ nodeContents(nodes) = nodeContents(saved[1].nodes)
        /\ edgeContents(edges) = edgeContents(saved[1].edges)

\* the nodes as JSON gives them back
jsonContents(ns) ==
    [i \in 1..Len(ns) |->
        [id |-> ns[i].id, position |-> ns[i].position, data |-> jsonData(ns[i].data)]]

\* the edges the importing store accepts: both endpoints among the nodes, and
\* not rejected by its isValidConnection
importable(es, ns) ==
    LET Accepted(e) == validConnection(e) /\ e.source \in idsOf(ns) /\ e.target \in idsOf(ns)
    IN SelectSeq(es, Accepted)

\* C9 amended: fromObject(toObject()) on the store, or on a fresh initialized
\* store, yields the nodes with their ids and positions and with the JSON
\* image of their data, and yields, with their ids, sources and targets,
\* exactly the edges whose endpoints are both nodes of the store and which
\* the importing store's isValidConnection accepts.
C9_RoundTripKeepsImportableContents ==
    RoundTripRan =>
        /\ nodeContents(nodes) = jsonContents(saved[1].nodes)
        /\ edgeContents(edges) = edgeContents(importable(saved[1].edges, saved[1].nodes))

\* C9 witness: a snapshot with a payload JSON changes and two edges, imported
\* into a fresh store that keeps both edges
C9_Witness ==
    /\ RoundTripRan
    /\ call.fresh
    /\ Len(nodes) = 2
    /\ Len(edges) = 2
    /\ \E i \in 1..Len(saved[1].nodes) : saved[1].nodes[i].data # nodes[i].data

(***************************************************************************)
(* The connection gesture: startConnection / updateConnection /            *)
(* endConnection.  Handles, positions and statuses are tokens.             *)
(***************************************************************************)
Connection ==
    [connectionStartHandle |-> connectionStartHandle,
     connectionClickStartHandle |-> connectionClickStartHandle,
     connectionEndHandle |-> connectionEndHandle,
     connectionStatus |-> connectionStatus,
     connectionPosition |-> connectionPosition]

\* position: a position, or undefined
startConnection(c, startHandle, position, isClick) ==
    [c EXCEPT !.connectionClickStartHandle = IF isClick THEN startHandle ELSE @,
              !.connectionStartHandle = IF isClick THEN @ ELSE startHandle,
              !.connectionEndHandle = Null,
              !.connectionStatus = Null,
              !.connectionPosition = IF position # Undefined THEN position ELSE @]

\* mutant of updateConnection: the update is recorded whether or not a drag
\* gesture is in progress
updateConnection_unguarded(c, position, result, status) ==
    [c EXCEPT !.connectionPosition = position,
              !.connectionEndHandle = result,
              !.connectionStatus = status]

updateConnection(c, position, result, status) ==
    IF c.connectionStartHandle # Null
    THEN [c EXCEPT !.connectionPosition = position,
                   !.connectionEndHandle = result,
                   !.connectionStatus = status]
    ELSE c

\* mutant of endConnection: the drag start handle whatever the gesture kind
endConnection_dragOnly(c, isClick) ==
    [c EXCEPT !.connectionPosition = NoPosition,
              !.connectionEndHandle = Null,
              !.connectionStatus = Null,
              !.connectionStartHandle = Null]

endConnection(c, isClick) ==
    [c EXCEPT !.connectionPosition = NoPosition,
              !.connectionEndHandle = Null,
              !.connectionStatus = Null,
              !.connectionClickStartHandle = IF isClick THEN Null ELSE @,
              !.connectionStartHandle = IF isClick THEN @ ELSE Null]

\* a gesture action writes the connection fields and nothing else
CommitConnection(c, record) ==
    /\ connectionStartHandle' = c.connectionStartHandle
    /\ connectionClickStartHandle' = c.connectionClickStartHandle
    /\ connectionEndHandle' = c.connectionEndHandle
    /\ connectionStatus' = c.connectionStatus
    /\ connectionPosition' = c.connectionPosition
    /\ events' = <<>>
    /\ errors' = <<>>
    /\ call' = record
    /\ UNCHANGED <<nodes, edges, connectionLookup, optionVars, viewVars, viewportVars, saved, storageVars, observerVars, zoomVars>>

StartConnection(startHandle, position, isClick) ==
    CommitConnection(startConnection(Connection, startHandle, position, isClick),
                     [op |-> "startConnection", startHandle |-> startHandle,
                      position |-> position, isClick |-> isClick])

UpdateConnection(position, result, status) ==
    CommitConnection(updateConnection(Connection, position, result, status),
                     [op |-> "updateConnection", position |-> position,
                      result |-> result, status |-> status])

\* from: the gesture as it was when it ended
EndConnection(isClick) ==
    CommitConnection(endConnection(Connection, isClick),
                     [op |-> "endConnection", isClick |-> isClick, from |-> Connection])

(***************************************************************************)
(* Specification of the gesture: two handles, two positions, click and     *)
(* drag gestures started, updated and ended in any order.                  *)
(***************************************************************************)
ConnectionSpecHandles == {"a.source", "b.target"}

ConnectionSpecPositions == {"(1,1)", "(2,2)"}

ConnectionSpecStatuses == {Null, "valid", "invalid"}

NextConnection ==
    \/ \E h \in ConnectionSpecHandles, p \in ConnectionSpecPositions \cup {Undefined},
          isClick \in BOOLEAN : StartConnection(h, p, isClick)
    \/ \E p \in ConnectionSpecPositions, r \in ConnectionSpecHandles \cup {Null},
          status \in ConnectionSpecStatuses : UpdateConnection(p, r, status)
    \/ \E isClick \in BOOLEAN : EndConnection(isClick)

SpecConnection == InitCreated /\ [][NextConnection]_vars

\* C10: after endConnection the end handle and the status are null, the
\* position is the 'no position' value and the start handle of the ended
\* kind of gesture (click or drag) is null, whatever the gesture was.
C10_EndConnectionResets ==
    call.op = "endConnection" =>
        /\ connectionEndHandle = Null
        /\ connectionStatus = Null
        /\ connectionPosition = NoPosition
        /\ IF call.isClick THEN connectionClickStartHandle = Null
                           ELSE connectionStartHandle = Null

\* C10 witness: a click gesture ended while a drag gesture had found a valid
\* end handle
C10_Witness ==
    /\ call.op = "endConnection"
    /\ call.isClick
    /\ call.from.connectionClickStartHandle # Null
    /\ call.from.connectionStartHandle # Null
    /\ call.from.connectionEndHandle # Null
    /\ call.from.connectionStatus = "valid"
    /\ call.from.connectionPosition # NoPosition
    /\ connectionClickStartHandle = Null

\* a step that starts or ends a gesture of the given kind
GestureBoundary(isClick) ==
    /\ call'.op \in {"startConnection", "endConnection"}
    /\ call'.isClick = isClick

\* the fields the two kinds of gesture share
sharedGestureFieldsKept ==
    /\ connectionPosition' = connectionPosition
    /\ connectionEndHandle' = connectionEndHandle
    /\ connectionStatus' = connectionStatus

\* C11 as claimed: starting or ending a click gesture leaves the start handle,
\* position, candidate end handle and status of a drag gesture in progress
\* unchanged, and starting or ending a drag gesture leaves those of a click
\* gesture in progress unchanged.
C11_GesturesDoNotInterfere ==
    [][/\ (GestureBoundary(TRUE) /\ connectionStartHandle # Null) =>
              /\ connectionStartHandle' = connectionStartHandle
              /\ sharedGestureFieldsKept
       /\ (GestureBoundary(FALSE) /\ connectionClickStartHandle # Null) =>
              /\ connectionClickStartHandle' = connectionClickStartHandle
              /\ sharedGestureFieldsKept]_vars

(***************************************************************************)
(* updateNodePositions.  A drag item carries the id, the position the      *)
(* pointer gives the node, the position it came from and, for a child,     *)
(* the id of its parent.                                                   *)
(***************************************************************************)
\* parentNode?.computedPosition ?? 0, per coordinate
parentOffset(st, parentId) ==
    LET parentNode == findNode(st.nodes, parentId)
    IN IF parentNode # <<>> /\ "computedPosition" \in DOMAIN parentNode[1]
       THEN parentNode[1].computedPosition
       ELSE [x |-> 0, y |-> 0]

\* mutant of dragPosition: the position of the drag item as it is
dragPosition_absolute(st, node) == node.position

\* change.position of a drag item that moved
dragPosition(st, node) ==
    IF Get(node, "parentNode") \notin {Undefined, ""}
    THEN [x |-> node.position.x - parentOffset(st, node.parentNode).x,
          y |-> node.position.y - parentOffset(st, node.parentNode).y]
    ELSE node.position

\* mutant of positionChange: the dragging flag only on a change of position
positionChange_draggingIfChanged(st, node, changed, dragging) ==
    Assign([id |-> node.id, type |-> "position", dragging |-> changed /\ dragging,
            from |-> node.from],
           IF changed THEN [position |-> dragPosition(st, node)] ELSE <<>>)

positionChange(st, node, changed, dragging) ==
    Assign([id |-> node.id, type |-> "position", dragging |-> dragging, from |-> node.from],
           IF changed THEN [position |-> dragPosition(st, node)] ELSE <<>>)

updateNodePositions(st, dragItems, changed, dragging) ==
    LET changes == [i \in 1..Len(dragItems) |->
                       positionChange(st, dragItems[i], changed, dragging)]
    IN IF Len(changes) > 0 THEN triggerNodesChange(st, changes) ELSE st

UpdateNodePositions(dragItems, changed, dragging) ==
    /\ Commit(updateNodePositions(Store, dragItems, changed, dragging),
              [op |-> "updateNodePositions", dragItems |-> dragItems,
               changed |-> changed, dragging |-> dragging])
    /\ UNCHANGED <<optionVars, connectionVars, viewportVars, saved, storageVars, observerVars, zoomVars,
                   viewVars>>

(***************************************************************************)
(* Specification of the drag: a parent a away from the origin and a child  *)
(* b; the items dragged are a, and b as the child of a or of a node the    *)
(* store does not hold.                                                    *)
(***************************************************************************)
DragSpecNodes ==
    {<<>>,
     <<[id |-> "a", position |-> [x |-> 10, y |-> 20]]>>,
     <<[id |-> "a", position |-> [x |-> 10, y |-> 20]],
       [id |-> "b", position |-> [x |-> 1, y |-> 2], parentNode |-> "a"]>>}

DragSpecPositions == {[x |-> 30, y |-> 40], [x |-> 5, y |-> 5]}

DragSpecItem ==
    {[id |-> "a", position |-> p, from |-> [x |-> 0, y |-> 0]] : p \in DragSpecPositions}
    \cup {[id |-> "b", position |-> [x |-> 30, y |-> 40], from |-> [x |-> 0, y |-> 0],
            parentNode |-> q] : q \in {"a", "zz"}}

DragSpecItems == SeqsUpTo(DragSpecItem, MaxDragItems)

NextDrag ==
    \/ call.op = "create" /\ \E ns \in DragSpecNodes : SetNodes(ns)
    \/ \E items \in DragSpecItems, changed \in BOOLEAN, dragging \in BOOLEAN :
          UpdateNodePositions(items, changed, dragging)

SpecDrag == InitCreated /\ [][NextDrag]_vars

\* the changes the last action delivered, over all its hook triggers
RECURSIVE deliveredFrom(_, _)
deliveredFrom(log, k) ==
    IF k > Len(log) THEN <<>> ELSE log[k].changes \o deliveredFrom(log, k + 1)

delivered == deliveredFrom(events, 1)

\* C17: updateNodePositions emits exactly one position change per drag item,
\* in the order of the items, each with the given dragging flag whatever
\* changed is, and with a position payload iff changed is true.
C17_OnePositionChangePerItem ==
    call.op = "updateNodePositions" =>
        /\ Len(delivered) = Len(call.dragItems)
        /\ Len(events) <= 1
        /\ \A i \in 1..Len(delivered) :
              /\ delivered[i].type = "position"
              /\ delivered[i].id = call.dragItems[i].id
              /\ delivered[i].dragging = call.dragging
              /\ ("position" \in DOMAIN delivered[i]) = call.changed

\* C17 witness: the start of a drag of two nodes, nothing moved yet
C17_Witness ==
    /\ call.op = "updateNodePositions"
    /\ ~call.changed
    /\ call.dragging
    /\ Len(call.dragItems) = 2
    /\ call.dragItems[1].id # call.dragItems[2].id
    /\ Len(delivered) = 2
    /\ Len(nodes) = 2
    /\ \A i \in 1..Len(nodes) : nodes[i].dragging

\* the nodes with the id a drag item names as its parent
parentsOf(ns, item) ==
    {i \in 1..Len(ns) : "parentNode" \in DOMAIN item /\ ns[i].id = item.parentNode}

\* C18: the position change of a dragged node with a parentNode carries the
\* item's position minus the parent's current computedPosition, per
\* coordinate; without a parent, or with a parent the store does not hold,
\* it carries the item's position.
C18_PositionRelativeToParent ==
    [][(call'.op = "updateNodePositions" /\ call'.changed) =>
          \A i \in 1..Len(call'.dragItems) :
              LET item == call'.dragItems[i]
                  carried == deliveredFrom(events', 1)[i].position
              IN /\ \A j \in parentsOf(nodes, item) :
                       /\ carried.x = item.position.x - nodes[j].computedPosition.x
                       /\ carried.y = item.position.y - nodes[j].computedPosition.y
                 /\ parentsOf(nodes, item) = {} => carried = item.position]_vars

\* C18 witness: the child b dragged to (30, 40) under its parent a at (10, 20)
C18_Witness ==
    /\ call.op = "updateNodePositions"
    /\ call.changed
    /\ Len(call.dragItems) = 1
    /\ call.dragItems[1].id = "b"
    /\ call.dragItems[1].parentNode = "a"
    /\ Len(nodes) = 2
    /\ nodes[1].computedPosition = [x |-> 10, y |-> 20]
    /\ delivered[1].position = [x |-> 20, y |-> 20]
    /\ nodes[2].position = [x |-> 20, y |-> 20]

(***************************************************************************)
(* Specification of the veto: the change listeners are told not to apply   *)
(* the changes (applyDefault false) before a graph of up to two nodes and  *)
(* one edge is declared; every action that goes through the change hooks   *)
(* is then run on it.                                                      *)
(***************************************************************************)
VetoSpecNodes == {<<>>, <<[id |-> "a"]>>, <<[id |-> "a"], [id |-> "b"]>>}

VetoSpecEdges == {<<>>, <<[id |-> "e1", source |-> "a", target |-> "b"]>>}

VetoSpecUpdates ==
    {<<[id |-> i, forceUpdate |-> f, width |-> 10, height |-> h, handles |-> "h1"]>> :
        i \in {"a", "b"}, f \in BOOLEAN, h \in {0, 10}}

VetoSpecItems ==
    {<<[id |-> i, position |-> [x |-> 30, y |-> 40], from |-> [x |-> 0, y |-> 0]]>> :
        i \in {"a", "b"}}

\* the actions of the claim
VetoSpecActions ==
    \/ AddNodes(<<[id |-> "c"]>>)
    \/ AddEdges(<<[id |-> "e2", source |-> "b", target |-> "a"]>>)
    \/ \E t \in RemoveTargets, rce \in BOOLEAN, rc \in BOOLEAN : RemoveNodes(t, rce, rc)
    \/ \E t \in SubSeqs(idSeq(edges), MaxTargets) : RemoveEdges(t)
    \/ \E t \in NodeTargets : AddSelectedNodes(t)
    \/ \E t \in EdgeTargets : AddSelectedEdges(t)
    \/ \E tn \in NodeTargets, te \in EdgeTargets : AddSelectedElements(tn, te)
    \/ \E t \in NodeTargets : RemoveSelectedNodes(t)
    \/ \E t \in EdgeTargets : RemoveSelectedEdges(t)
    \/ \E tn \in NodeTargets, te \in EdgeTargets : RemoveSelectedElements(tn, te)
    \/ \E items \in VetoSpecItems, changed \in BOOLEAN, dragging \in BOOLEAN :
          UpdateNodePositions(items, changed, dragging)
    \/ \E u \in VetoSpecUpdates : UpdateNodeDimensions(u, TRUE)

NextVeto ==
    \/ call.op = "create" /\ \E m \in BOOLEAN :
          SetState([applyDefault |-> FALSE, multiSelectionActive |-> m])
    \/ call.op = "setState" /\ \E ns \in VetoSpecNodes : SetNodes(ns)
    \/ call.op = "setNodes" /\ \E es \in VetoSpecEdges : SetEdges(es)
    \/ call.op \notin {"create", "setState", "setNodes"} /\ VetoSpecActions

SpecVeto == InitDimensions /\ [][NextVeto]_vars

\* the actions that go through nodesChange / edgesChange
hookActions ==
    {"addNodes", "addEdges", "removeNodes", "removeEdges", "addSelectedNodes",
     "addSelectedEdges", "addSelectedElements", "removeSelectedNodes",
     "removeSelectedEdges", "removeSelectedElements", "updateNodePositions",
     "updateNodeDimensions"}

\* C12 as claimed: while the listeners discard every change, the actions that
\* go through the change hooks leave every node and every edge of the
\* collections as it was.
C12_VetoedActionsChangeNothing ==
    [][(~applyDefault /\ call'.op \in hookActions) =>
          /\ nodes' = nodes
          /\ edges' = edges]_vars

\* the last action was setEdges, or applied edge changes (applyEdgeChanges
\* through the listener of edgesChange)
EdgesWritten ==
    \/ call.op = "setEdges"
    \/ applyDefault /\ \E k \in 1..Len(events) : events[k].hook = "edgesChange"

\* the node, the role and the edge of the entries of a lookup
indexedEnds(lookup) == {<<entry[1], entry[2], entry[4]>> : entry \in lookup}

\* C13 as claimed: after setEdges and after applyEdgeChanges the connection
\* lookup indexes exactly the edges of the edge collection: no entry for an
\* edge that was dropped or removed, and every retained edge indexed.
C13_LookupIndexesTheEdges ==
    EdgesWritten => indexedEnds(connectionLookup) = indexedEnds(updateConnectionLookup(edges))

(***************************************************************************)
(* The declaration of a graph on a store before and after setState has     *)
(* initialized it.  The collection is given as it is or by an updater      *)
(* function of the collection in the store.                                *)
(***************************************************************************)
\* nodes instanceof Function ? nodes(state.nodes) : nodes, for the updaters
\* that return nothing and that return what they are given
updaterResult(updater, current) == IF updater = "none" THEN <<>> ELSE current

SetElements(nextElements) ==
    /\ Commit(setElements(Store, nextElements),
              [op |-> "setElements", elements |-> nextElements])
    /\ UNCHANGED <<optionVars, connectionVars, viewportVars, saved, storageVars, observerVars, zoomVars,
                   viewVars>>

SetNodesBy(updater) ==
    /\ Commit(setNodes(Store, updaterResult(updater, nodes)),
              [op |-> "setNodes", nodes |-> updaterResult(updater, nodes), updater |-> updater])
    /\ UNCHANGED <<optionVars, connectionVars, viewportVars, saved, storageVars, observerVars, zoomVars,
                   viewVars>>

SetEdgesBy(updater) ==
    /\ Commit(setEdges(Store, updaterResult(updater, edges)),
              [op |-> "setEdges", edges |-> updaterResult(updater, edges), updater |-> updater])
    /\ UNCHANGED <<optionVars, connectionVars, viewportVars, saved, storageVars, observerVars, zoomVars,
                   viewVars>>

SetElementsBy(updater) ==
    /\ Commit(setElements(Store, updaterResult(updater, nodes \o edges)),
              [op |-> "setElements", elements |-> updaterResult(updater, nodes \o edges),
               updater |-> updater])
    /\ UNCHANGED <<optionVars, connectionVars, viewportVars, saved, storageVars, observerVars, zoomVars,
                   viewVars>>

DeclareSpecNodes ==
    {<<>>, <<[id |-> "a"]>>, <<[id |-> "b"]>>, <<[id |-> "a"], [id |-> "b"]>>}

DeclareSpecEdges ==
    SubSeqs(<<[id |-> "e1", source |-> "a", target |-> "b"],
              [id |-> "e2", source |-> "b", target |-> "a"]>>, MaxEdges)

DeclareSpecElements ==
    {ns \o es : ns \in {<<>>, <<[id |-> "a"], [id |-> "b"]>>}, es \in DeclareSpecEdges}

DeclareSpecUpdaters == {"none", "same"}

NextDeclare ==
    \/ SetState(<<>>)
    \/ \E ns \in DeclareSpecNodes : SetNodes(ns)
    \/ \E es \in DeclareSpecEdges : SetEdges(es)
    \/ \E els \in DeclareSpecElements : SetElements(els)
    \/ \E u \in DeclareSpecUpdaters : SetNodesBy(u)
    \/ \E u \in DeclareSpecUpdaters : SetEdgesBy(u)
    \/ \E u \in DeclareSpecUpdaters : SetElementsBy(u)

SpecDeclare == Init /\ [][NextDeclare]_vars

\* the collection a setNodes, setEdges or setElements call was given
declared(c) ==
    IF c.op = "setNodes" THEN c.nodes
    ELSE IF c.op = "setEdges" THEN c.edges
    ELSE c.elements

\* C14: on an uninitialized store setNodes, setEdges and setElements with an
\* empty collection, literal or returned by the updater, change neither the
\* nodes nor the edges nor the connection lookup and emit nothing.
C14_EmptyDeclarationIsNoOp ==
    [][(/\ ~initialized
        /\ call'.op \in {"setNodes", "setEdges", "setElements"}
        /\ declared(call') = <<>>) =>
          /\ nodes' = nodes
          /\ edges' = edges
          /\ connectionLookup' = connectionLookup
          /\ events' = <<>>
          /\ errors' = <<>>]_vars

\* C14 witness: an uninitialized store that holds nodes and edges after a
\* setElements whose updater returned an empty collection
C14_Witness ==
    /\ ~initialized
    /\ call.op = "setElements"
    /\ call.elements = <<>>
    /\ "updater" \in DOMAIN call
    /\ Len(nodes) = 2
    /\ Len(edges) = 2
    /\ connectionLookup # {}

\* the ids named by the changes delivered on a hook by a log
changedIds(log, hook) ==
    UNION {{log[k].changes[j].id : j \in 1..Len(log[k].changes)} :
              k \in {i \in 1..Len(log) : log[i].hook = hook}}

\* C15: in multi-selection mode addSelectedNodes, addSelectedEdges and
\* addSelectedElements emit select changes for the targets only, and the
\* selected flag of every node and every edge that is not a target is as
\* it was.
C15_MultiSelectionTouchesTargetsOnly ==
    [][(/\ multiSelectionActive
        /\ applyDefault
        /\ call'.op \in {"addSelectedNodes", "addSelectedEdges", "addSelectedElements"}) =>
          /\ changedIds(events', "nodesChange") \subseteq Range(call'.nodeIds)
          /\ changedIds(events', "edgesChange") \subseteq Range(call'.edgeIds)
          /\ \A k \in 1..Len(events') : \A j \in 1..Len(events'[k].changes) :
                events'[k].changes[j].type = "select"
          /\ Len(nodes') = Len(nodes)
          /\ Len(edges') = Len(edges)
          /\ \A i \in 1..Len(nodes) :
                nodes[i].id \notin Range(call'.nodeIds) => nodes'[i].selected = nodes[i].selected
          /\ \A i \in 1..Len(edges) :
                edges[i].id \notin Range(call'.edgeIds) => edges'[i].selected = edges[i].selected]_vars

\* C15 witness: in multi-selection mode node a was added to a selection that
\* held node b; b is still selected and the edge with the id a is not
C15_Witness ==
    /\ multiSelectionActive
    /\ call.op = "addSelectedNodes"
    /\ call.nodeIds = <<"a">>
    /\ selectedIds(nodes) = {"a", "b"}
    /\ "a" \in idsOf(edges)
    /\ "a" \notin selectedIds(edges)
    /\ changedIds(events, "nodesChange") = {"a"}

\* the targets of a removeNodes call whose deletable flag is false
protectedTargets(ns, targets) ==
    {t \in Range(targets) : findNode(ns, t) # <<>> /\ ~deletableOrDefault(findNode(ns, t)[1])}

\* the targets without one of them
withoutTarget(targets, t) == LET Other(x) == x # t IN SelectSeq(targets, Other)

\* what a skipped target t of a removeNodes step is owed: no remove change
\* names it, the changes are those of the call without it, and the node is
\* still in the collection
SkippedEntirely(t) ==
    /\ t \notin changedIds(events', "nodesChange")
    /\ events' = removeNodes(Store, withoutTarget(call'.targets, t),
                             call'.removeConnectedEdges, call'.removeChildren).events
    /\ t \in idsOf(nodes')

\* C16 as claimed: a removeNodes target whose deletable flag is false is
\* skipped entirely: no remove change for it, none on its account for its
\* edges or children, and it is still in the collection; the other targets
\* are processed.
C16_ProtectedTargetSkipped ==
    [][call'.op = "removeNodes" =>
          \A t \in protectedTargets(nodes, call'.targets) : SkippedEntirely(t)]_vars

\* C16 amended: the same, for a target whose deletable flag is false and
\* which is not, with removeChildren true, a descendant of another target of
\* the call whose deletable flag is not false; such a descendant is removed
\* with its ancestor.
C16_ProtectedTargetSkippedUnlessDescendant ==
    [][call'.op = "removeNodes" =>
          \A t \in protectedTargets(nodes, call'.targets) :
              LET removed == Range(call'.targets) \ protectedTargets(nodes, call'.targets)
              IN ~(call'.removeChildren /\ t \in withDescendants(nodes, removed)) =>
                    SkippedEntirely(t)]_vars

\* C16 witness: b, not deletable, and c were targets with the children not
\* asked for; c and its edge are gone, b is still there
C16_Witness ==
    /\ call.op = "removeNodes"
    /\ call.targets = <<"b", "c">>
    /\ call.removeConnectedEdges
    /\ ~call.removeChildren
    /\ idsOf(nodes) = {"a", "b"}
    /\ ~deletableOrDefault(nodes[2])
    /\ changedIds(events, "nodesChange") = {"c"}
    /\ changedIds(events, "edgesChange") = {"e2"}


(***************************************************************************)
(* Zoom options: setMinZoom, setMaxZoom, setTranslateExtent and the        *)
(* continuation setState leaves waiting for the pan-zoom engine.           *)
(***************************************************************************)

\* The zoom pane mounts and creates the engine from the options of the store.
ZoomPaneMounted ==
    /\ d3Zoom = <<>>
    /\ d3Zoom' = <<[scaleExtent |-> <<minZoom, maxZoom>>,
                    translateExtent |-> translateExtent]>>
    /\ call' = [op |-> "zoomPaneMounted"]
    /\ UNCHANGED <<nodes, edges, connectionLookup, optionVars, connectionVars, viewVars,
                   viewportVars, saved, storageVars, observerVars, minZoom, maxZoom, translateExtent, pendingSkipped,
                   setStateCalls, skippedApplied, zoomRequested, events, errors>>

\* until(() => state.d3Zoom).not.toBeNull().then(setSkippedOptions): the
\* continuations run in the order of their setState calls.
SetSkippedOptions ==
    /\ d3Zoom # <<>>
    /\ pendingSkipped # <<>>
    /\ CommitZoom(setSkippedOptions(ZoomState, Head(pendingSkipped).opts))
    /\ pendingSkipped' = Tail(pendingSkipped)
    /\ skippedApplied' = Append(skippedApplied, [id |-> Head(pendingSkipped).id,
                                                  waited |-> Head(pendingSkipped).waited])
    /\ call' = [op |-> "setSkippedOptions", opts |-> Head(pendingSkipped).opts]
    /\ UNCHANGED <<nodes, edges, connectionLookup, optionVars, connectionVars, viewVars,
                   viewportVars, saved, storageVars, observerVars, setStateCalls, zoomRequested,
                   events, errors>>

ZoomSetter(z, c, key) ==
    /\ CommitZoom(z)
    /\ call' = c
    /\ zoomRequested' = [zoomRequested EXCEPT ![key] = c.value]
    /\ UNCHANGED <<nodes, edges, connectionLookup, optionVars, connectionVars, viewVars,
                   viewportVars, saved, storageVars, observerVars, pendingSkipped, setStateCalls, skippedApplied,
                   events, errors>>

SetMinZoom(value) ==
    ZoomSetter(setMinZoom(ZoomState, value), [op |-> "setMinZoom", value |-> value], "minZoom")

SetMaxZoom(value) ==
    ZoomSetter(setMaxZoom(ZoomState, value), [op |-> "setMaxZoom", value |-> value], "maxZoom")

SetTranslateExtent(value) ==
    ZoomSetter(setTranslateExtent(ZoomState, value),
               [op |-> "setTranslateExtent", value |-> value], "translateExtent")

ZoomSpecOptions ==
    { [minZoom |-> 1],
      [maxZoom |-> 40],
      [minZoom |-> 2, maxZoom |-> 30, translateExtent |-> "box"],
      [multiSelectionActive |-> TRUE] }

NextZoom ==
    \/ \E opts \in ZoomSpecOptions : SetState(opts)
    \/ ZoomPaneMounted
    \/ SetSkippedOptions
    \/ SetMinZoom(3)
    \/ SetMaxZoom(50)
    \/ SetTranslateExtent("pane")

SpecZoom == Init /\ [][NextZoom]_vars

\* A continuation that can run does run: it is a resolved promise's callback.
SpecZoomLive == SpecZoom /\ WF_vars(SetSkippedOptions)

pendingIds == {pendingSkipped[i].id : i \in 1..Len(pendingSkipped)}

appliedIds == {skippedApplied[i].id : i \in 1..Len(skippedApplied)}

\* the zoom options of the store and the extents of the engine agree with opts
zoomOptionsApplied(opts) ==
    /\ d3Zoom # <<>>
    /\ isGiven(opts, "minZoom") => minZoom = opts.minZoom
    /\ isGiven(opts, "maxZoom") => maxZoom = opts.maxZoom
    /\ isGiven(opts, "translateExtent") => translateExtent = opts.translateExtent
    /\ d3Zoom[1].scaleExtent = <<minZoom, maxZoom>>
    /\ d3Zoom[1].translateExtent = translateExtent

C19_AppliedOncePerCall ==
    /\ d3Zoom = <<>> => skippedApplied = <<>>
    /\ \A i, j \in 1..Len(skippedApplied) :
           skippedApplied[i].id = skippedApplied[j].id => i = j
    /\ pendingIds \cap appliedIds = {}
    /\ pendingIds \cup appliedIds = 1..setStateCalls
    /\ call.op = "setSkippedOptions" => zoomOptionsApplied(call.opts)

C19_SetStateDefers ==
    call'.op = "setState" =>
        /\ UNCHANGED <<d3Zoom, minZoom, maxZoom, translateExtent, skippedApplied>>
        /\ givesSkippedOptions(call'.opts) => setStateCalls' \in pendingIds'

\* C19: the minZoom, maxZoom and translateExtent given to setState are not
\* applied by setState itself nor while the pan-zoom engine is unavailable;
\* every setState call that gives them has them applied exactly once, to the
\* store and to the engine, and with the engine available it does happen.
C19_ZoomOptionsDeferredAppliedOnce ==
    /\ []C19_AppliedOncePerCall
    /\ [][C19_SetStateDefers]_vars
    /\ \A k \in 1..MaxZoomCalls :
           (d3Zoom # <<>> /\ k \in pendingIds) ~> (k \in appliedIds)

\* one call waited for the engine, another found it there; both were applied
C19_Witness ==
    /\ call.op = "setSkippedOptions"
    /\ \E i, j \in 1..Len(skippedApplied) :
           skippedApplied[i].waited /\ ~skippedApplied[j].waited
    /\ pendingSkipped = <<>>

(***************************************************************************)
(* Specification of the viewport restore: snapshots as toObject writes     *)
(* them, at the origin and away from it, and snapshots that give only a    *)
(* part of the viewport, are imported before and after the viewport helper *)
(* is ready.                                                               *)
(***************************************************************************)
RestoreSpecObjects ==
    { [nodes |-> <<[id |-> "a"]>>, edges |-> <<>>, position |-> <<3, 4>>, zoom |-> 2,
       viewport |-> [x |-> 3, y |-> 4, zoom |-> 2]],
      [position |-> <<0, 0>>, zoom |-> 2, viewport |-> [x |-> 0, y |-> 0, zoom |-> 2]],
      [position |-> <<0, 7>>],
      [zoom |-> 3],
      [viewport |-> [x |-> 0, y |-> 4, zoom |-> 2]],
      [nodes |-> <<[id |-> "a"], [id |-> "b"]>>] }
    \cup (IF saved = <<>> THEN {} ELSE {saved[1].obj})

NextRestore ==
    \/ \E obj \in RestoreSpecObjects : FromObject(obj)
    \/ ViewportReady
    \/ SetViewport
    \/ call.op = "setViewport" /\ ToObject

SpecRestore == InitCreated /\ [][NextRestore]_vars

givesViewport(obj) == {"position", "zoom", "viewport"} \cap DOMAIN obj # {}

\* the x, y and zoom a snapshot gives; what it does not give stays as it is
snapshotViewport(obj) ==
    [x |-> IF "viewport" \in DOMAIN obj THEN obj.viewport.x
           ELSE IF "position" \in DOMAIN obj THEN obj.position[1] ELSE viewport.x,
     y |-> IF "viewport" \in DOMAIN obj THEN obj.viewport.y
           ELSE IF "position" \in DOMAIN obj THEN obj.position[2] ELSE viewport.y,
     zoom |-> IF "viewport" \in DOMAIN obj THEN obj.viewport.zoom
              ELSE IF "zoom" \in DOMAIN obj THEN obj.zoom ELSE viewport.zoom]

\* C20: fromObject of a snapshot that gives a position, a zoom or a viewport
\* leaves for setViewport a viewport with exactly the x, y and zoom of the
\* snapshot, coordinates equal to 0 and snapshots with only a zoom included.
C20_RestoresWhatTheSnapshotGives ==
    (call.op = "fromObject" /\ givesViewport(call.obj)) =>
        /\ pendingViewports # <<>>
        /\ pendingViewports[Len(pendingViewports)] = snapshotViewport(call.obj)

\* the same for the snapshots that give a position
restoresSnapshotsWithPosition ==
    (call.op = "fromObject" /\ "position" \in DOMAIN call.obj) =>
        /\ pendingViewports # <<>>
        /\ pendingViewports[Len(pendingViewports)] = snapshotViewport(call.obj)


\* what fromObject does about the viewport: nothing applied in the call, the
\* promise resolved in the call only when there is nothing to restore
fromObjectDefers ==
    call'.op = "fromObject" =>
        /\ viewport' = viewport
        /\ IF restoresViewport(call'.obj)
           THEN /\ ~call'.resolved
                /\ pendingViewports' = Append(pendingViewports, fromObjectViewport(call'.obj))
           ELSE call'.resolved /\ pendingViewports' = pendingViewports

\* setViewport runs for the oldest waiting fromObject, the helper being ready
setViewportWhenReady ==
    call'.op = "setViewport" =>
        /\ viewportInitialized
        /\ pendingViewports # <<>>
        /\ viewport' = Head(pendingViewports)
        /\ pendingViewports' = Tail(pendingViewports)

\* the edges of the snapshot are checked against the nodes of the snapshot
fromObjectNodesFirst ==
    (call'.op = "fromObject" /\ {"nodes", "edges"} \subseteq DOMAIN call'.obj) =>
        /\ idsOf(nodes') = idsOf(call'.obj.nodes)
        /\ edgeContents(edges') = edgeContents(importable(call'.obj.edges, call'.obj.nodes))

\* C21: when fromObject has a viewport to restore, setViewport is not invoked
\* before viewportInitialized and the promise is not resolved before
\* setViewport; the nodes of the snapshot are set before its edges, which are
\* validated against them.
C21_RestoreWaitsForHelper ==
    [][fromObjectDefers /\ setViewportWhenReady /\ fromObjectNodesFirst]_vars

\* C21 witness: a snapshot with two edges imported into a store just created,
\* its viewport set after the helper became ready
C21_Witness ==
    /\ call.op = "setViewport"
    /\ viewportInitialized
    /\ pendingViewports = <<>>
    /\ saved # <<>>
    /\ Len(saved[1].obj.edges) = 2
    /\ edgeContents(edges) = edgeContents(saved[1].obj.edges)


(***************************************************************************)
(* Specification of the fit on init: a mounted flow with fitViewOnInit     *)
(* set or not, whose nodes are measured as the resize observer and the     *)
(* node watchers report them, each report in a tick of its own; the        *)
(* continuation of a measurement runs after the measurements queued        *)
(* before it.                                                              *)
(***************************************************************************)
FitViewSpecNodes == {<<[id |-> "a"]>>, <<[id |-> "a"], [id |-> "b"]>>}

FitViewSpecUpdates ==
    {<<[id |-> i, width |-> w, height |-> 20, forceUpdate |-> TRUE, handles |-> "h1"]>> :
        i \in {"a", "b"}, w \in {10, 30}}

NextFitView ==
    \/ call.op = "create" /\ \E ns \in FitViewSpecNodes : SetNodes(ns)
    \/ call.op = "setNodes" /\ \E f \in BOOLEAN : SetState([fitViewOnInit |-> f])
    \/ call.op # "create" /\ \E u \in FitViewSpecUpdates : UpdateNodeDimensions(u, TRUE)
    \/ FitViewOnInit

SpecFitView == InitDimensions /\ [][NextFitView]_vars

\* C22: fitView is invoked on account of fitViewOnInit at most once per
\* store: never when fitViewOnInitDone is already true, whatever the order
\* of the updateNodeDimensions calls and of their next-tick continuations.
C22_FitViewOnInitOnce ==
    call.op = "fitViewOnInit" => ~call.done


(***************************************************************************)
(* Specification of the re-declaration: node collections with positions,   *)
(* one of them naming an id twice, are declared and declared again; in     *)
(* between the nodes are measured, selected and dragged, so that the       *)
(* nodes of the store carry internal fields the inputs do not give.        *)
(***************************************************************************)
RedeclareSpecNodes ==
    { <<[id |-> "a", position |-> [x |-> 5, y |-> 7]]>>,
      <<[id |-> "a", position |-> [x |-> 5, y |-> 7]], [id |-> "b"]>>,
      <<[id |-> "b", position |-> [x |-> 1, y |-> 1]], [id |-> "a"]>>,
      <<[id |-> "a", position |-> [x |-> 5, y |-> 7]],
        [id |-> "a", position |-> [x |-> 9, y |-> 9]]>> }

RedeclareSpecUpdates ==
    {<<[id |-> "a", width |-> 10, height |-> 20, forceUpdate |-> FALSE, handles |-> "h1"]>>}

NextRedeclare ==
    \/ \E ns \in RedeclareSpecNodes : SetNodes(ns)
    \/ call.op = "setNodes" /\ \E u \in RedeclareSpecUpdates : UpdateNodeDimensions(u, TRUE)
    \/ call.op # "create" /\ \E t \in SubSeqs(nodes, 1) : AddSelectedNodes(t)
    \/ /\ call.op \in {"setNodes", "updateNodeDimensions"}
       /\ UpdateNodePositions(<<[id |-> "a", position |-> [x |-> 30, y |-> 40],
                                from |-> [x |-> 0, y |-> 0]]>>, TRUE, FALSE)

SpecRedeclare == InitDimensions /\ [][NextRedeclare]_vars

\* a setNodes call with the collection of the setNodes call just before it
declaredAgain == call.op = "setNodes" /\ call'.op = "setNodes" /\ call'.nodes = call.nodes

\* C23: setNodes with the collection of the setNodes call just before it
\* leaves the store as that call left it, each node with its computedPosition
\* and dimensions, and emits no change event.
C23_SetNodesIdempotent ==
    [][declaredAgain => nodes' = nodes /\ edges' = edges /\ events' = <<>>]_vars

\* the same for the collections that name no id twice
setNodesIdempotentOnDistinctIds ==
    [][(declaredAgain /\ Cardinality(idsOf(call.nodes)) = Len(call.nodes))
           => nodes' = nodes /\ edges' = edges /\ events' = <<>>]_vars


(***************************************************************************)
(* NodeWrapper: the position watcher and clampPosition.  Every node of     *)
(* the store is rendered by a NodeWrapper; the watcher of a node keeps,    *)
(* in the field watched, the values of its sources at its last run, and    *)
(* has a run pending when they differ from the present ones (a node just   *)
(* built has no such field: the watcher is immediate).                     *)
(***************************************************************************)
\* parentNode.value: findNode(node.parentNode)
parentOf(ns, node) == findNode(ns, Get(node, "parentNode"))

\* the sources of the watcher: the position of the node and the
\* computedPosition of its parent, undefined without a parent
watcherSources(ns, node) ==
    [x |-> node.position.x, y |-> node.position.y,
     parent |-> IF parentOf(ns, node) = <<>> THEN <<>>
                ELSE <<parentOf(ns, node)[1].computedPosition>>]

\* getXYZPos(parentPos, xyzPos), or xyzPos without a parent
watchedPosition(sources) ==
    IF sources.parent = <<>> THEN [x |-> sources.x, y |-> sources.y]
    ELSE [x |-> sources.parent[1].x + sources.x, y |-> sources.parent[1].y + sources.y]

watcherPending(ns, node) ==
    IF "watched" \in DOMAIN node THEN node.watched # watcherSources(ns, node) ELSE TRUE

\* the callback of the watcher of node i
positionWatcher(ns, i) ==
    [ns EXCEPT ![i] = Assign(@, [computedPosition |-> watchedPosition(watcherSources(ns, ns[i])),
                                 watched |-> watcherSources(ns, ns[i])])]

\* snapGrid * Math.round(v / snapGrid)
snapped(v, grid) == grid * ((2 * v + grid) \div (2 * grid))

clampTo(v, lo, hi) == IF v < lo THEN lo ELSE IF v > hi THEN hi ELSE v

\* calcNextPosition(node, nextPos, onError, nodeExtent, parentNode): nextPos
\* clamped to the extent, and the position it is relative to the parent
calcNextPosition(ns, node, nextPos, extent) ==
    LET clamped == IF extent = <<>> THEN nextPos
                   ELSE [x |-> clampTo(nextPos.x, extent[1].lo, extent[1].hi),
                         y |-> clampTo(nextPos.y, extent[1].lo, extent[1].hi)]
        parent == parentOf(ns, node)
        offset == IF parent = <<>> THEN [x |-> 0, y |-> 0] ELSE parent[1].computedPosition
    IN [computedPosition |-> clamped,
        position |-> [x |-> clamped.x - offset.x, y |-> clamped.y - offset.y]]

\* mutant of clampPosition: the clamped computedPosition without the position
clampPosition_computedOnly(ns, i, snapGrid, extent) ==
    LET nextPos == IF snapGrid = <<>> THEN ns[i].computedPosition
                   ELSE [x |-> snapped(ns[i].computedPosition.x, snapGrid[1]),
                         y |-> snapped(ns[i].computedPosition.y, snapGrid[1])]
    IN [ns EXCEPT ![i] = Assign(@, [computedPosition |->
                             calcNextPosition(ns, ns[i], nextPos, extent).computedPosition])]

\* clampPosition() of node i: the computedPosition snapped to the grid in
\* place, then both positions overwritten where the clamping changed them
clampPosition(ns, i, snapGrid, extent) ==
    LET nextPos == IF snapGrid = <<>> THEN ns[i].computedPosition
                   ELSE [x |-> snapped(ns[i].computedPosition.x, snapGrid[1]),
                         y |-> snapped(ns[i].computedPosition.y, snapGrid[1])]
        next == calcNextPosition(ns, ns[i], nextPos, extent)
    IN [ns EXCEPT ![i] = Assign(@, [computedPosition |-> next.computedPosition,
                                    position |-> next.position])]

NodeWrapperStep(ns, c) ==
    /\ nodes' = ns
    /\ events' = <<>>
    /\ errors' = <<>>
    /\ call' = c
    /\ UNCHANGED <<edges, connectionLookup, optionVars, connectionVars, viewportVars, saved, storageVars, observerVars,
                   zoomVars, viewVars>>

PositionWatcher(i) ==
    /\ watcherPending(nodes, nodes[i])
    /\ NodeWrapperStep(positionWatcher(nodes, i), [op |-> "positionWatcher", id |-> nodes[i].id])

ClampPosition(i, snapGrid, extent) ==
    NodeWrapperStep(clampPosition(nodes, i, snapGrid, extent),
                    [op |-> "clampPosition", id |-> nodes[i].id, snapGrid |-> snapGrid,
                     extent |-> extent])

(***************************************************************************)
(* Specification of the positions: a parent a and a child b are declared   *)
(* and declared again at other positions, dragged, and clamped with and    *)
(* without a grid and an extent; the watchers run one at a time.  The      *)
(* nodes move along the x axis and stay within MaxCoordinate of the origin.*)
(***************************************************************************)
PositionSpecNodes ==
    { <<[id |-> "a", position |-> p],
        [id |-> "b", position |-> [x |-> 2, y |-> 0], parentNode |-> q]>> :
          p \in {[x |-> 3, y |-> 0], [x |-> 8, y |-> 0]}, q \in {"a", "zz"} }

PositionSpecItems ==
    { <<[id |-> "a", position |-> [x |-> 7, y |-> 0], from |-> [x |-> 0, y |-> 0]]>>,
      <<[id |-> "b", position |-> [x |-> 4, y |-> 0], from |-> [x |-> 0, y |-> 0],
         parentNode |-> "a"]>> }

PositionSpecGrids == {<<>>, <<5>>}

PositionSpecExtents == {<<>>, <<[lo |-> 0, hi |-> 6]>>}

\* the nodes stay within MaxCoordinate of the origin
withinReach(ns) ==
    \A i \in 1..Len(ns) :
        {ns[i].position.x, ns[i].position.y, ns[i].computedPosition.x,
         ns[i].computedPosition.y} \subseteq (0 - MaxCoordinate)..MaxCoordinate

NextPosition ==
    \/ call.op \in {"create", "positionWatcher"} /\ \E ns \in PositionSpecNodes : SetNodes(ns)
    \/ /\ call.op # "create"
       /\ \E items \in PositionSpecItems : UpdateNodePositions(items, TRUE, FALSE)
    \/ \E i \in 1..Len(nodes), g \in PositionSpecGrids, e \in PositionSpecExtents :
           (g # <<>> \/ e # <<>>) /\ ClampPosition(i, g, e) /\ withinReach(nodes')
    \/ \E i \in 1..Len(nodes) : PositionWatcher(i) /\ withinReach(nodes')

SpecPosition == InitCreated /\ [][NextPosition]_vars

allWatchersFlushed == \A i \in 1..Len(nodes) : ~watcherPending(nodes, nodes[i])

\* the same, every run of a watcher taking place before the next operation
NextPositionSettled == NextPosition /\ (call'.op # "positionWatcher" => allWatchersFlushed)

SpecPositionSettled == InitCreated /\ [][NextPositionSettled]_vars

derivedPosition(ns, node) ==
    IF parentOf(ns, node) = <<>> THEN node.position
    ELSE [x |-> node.position.x + parentOf(ns, node)[1].computedPosition.x,
          y |-> node.position.y + parentOf(ns, node)[1].computedPosition.y]

\* C24: whenever no run of a position watcher is pending, the
\* computedPosition of every node is its position plus the computedPosition
\* of its parent, or its position when it has no parent; clamping and
\* snapping leave no other value behind.
C24_ComputedPositionDerived ==
    allWatchersFlushed =>
        \A i \in 1..Len(nodes) : nodes[i].computedPosition = derivedPosition(nodes, nodes[i])

\* C24 witness: a child away from its parent's origin, after a clampPosition
\* that snapped it and after the watchers have run
C24_Witness ==
    /\ allWatchersFlushed
    /\ call.op = "positionWatcher"
    /\ Len(nodes) = 2
    /\ parentOf(nodes, nodes[2]) # <<>>
    /\ nodes[1].computedPosition # [x |-> 0, y |-> 0]
    /\ nodes[2].computedPosition.x % 5 = 0
    /\ nodes[2].computedPosition # nodes[2].position


(***************************************************************************)
(* Nodes.vue: the ResizeObserver of the nodes component.  Its callback     *)
(* defers updateNodeDimensions to the next tick; onBeforeUnmount           *)
(* disconnects it.                                                         *)
(***************************************************************************)
ObserverStep(c) ==
    /\ events' = <<>>
    /\ errors' = <<>>
    /\ call' = c
    /\ UNCHANGED <<nodes, edges, connectionLookup, optionVars, connectionVars, viewportVars,
                   saved, storageVars, zoomVars, viewVars>>

\* onMounted: resizeObserver.value = new ResizeObserver(...)
NodesMounted ==
    /\ resizeObserver = Null
    /\ resizeObserver' = "observing"
    /\ UNCHANGED resizeTicks
    /\ ObserverStep([op |-> "nodesMounted"])

\* the callback of the observer: the entries as forced updates, deferred
ResizeObserved(ids) ==
    /\ resizeObserver = "observing"
    /\ Len(resizeTicks) < MaxTicks
    /\ resizeTicks' = Append(resizeTicks,
           [i \in 1..Len(ids) |-> [id |-> ids[i], width |-> 10, height |-> 20,
                                   forceUpdate |-> TRUE, handles |-> "h1"]])
    /\ UNCHANGED resizeObserver
    /\ ObserverStep([op |-> "resizeObserved", ids |-> ids])

\* onBeforeUnmount: resizeObserver.value?.disconnect()
NodesUnmounted ==
    /\ resizeObserver = "observing"
    /\ resizeObserver' = "disconnected"
    /\ UNCHANGED resizeTicks
    /\ ObserverStep([op |-> "nodesUnmounted"])

\* nextTick(() => updateNodeDimensions(updates))
ResizeTick ==
    /\ resizeTicks # <<>>
    /\ queuesFitView(TRUE) => fitViewTicks < MaxTicks
    /\ Commit(updateNodeDimensions(Store, Head(resizeTicks), TRUE),
              [op |-> "updateNodeDimensions", updates |-> Head(resizeTicks), pane |-> TRUE,
               observer |-> resizeObserver])
    /\ resizeTicks' = Tail(resizeTicks)
    /\ fitViewTicks' = IF queuesFitView(TRUE) THEN fitViewTicks + 1 ELSE fitViewTicks
    /\ UNCHANGED <<optionVars, connectionVars, viewportVars, saved, storageVars, zoomVars, vueFlowRef,
                   fitViewOnInit, fitViewOnInitDone, resizeObserver>>

(***************************************************************************)
(* Specification of the teardown: a mounted flow whose nodes component is  *)
(* mounted and unmounted while its nodes are resized.                      *)
(***************************************************************************)
ObserverSpecNodes == {<<[id |-> "a"]>>, <<[id |-> "a"], [id |-> "b"]>>}

NextObserver ==
    \/ call.op = "create" /\ \E ns \in ObserverSpecNodes : SetNodes(ns)
    \/ NodesMounted
    \/ \E ids \in SubSeqs(idSeq(nodes), MaxNodes) : ids # <<>> /\ ResizeObserved(ids)
    \/ ResizeTick
    \/ NodesUnmounted

SpecObserver == InitDimensions /\ [][NextObserver]_vars

\* C25: once the observer of the nodes component is disconnected no
\* updateNodeDimensions call on account of a resize observation changes the
\* store, a call that was deferred to the next tick before the teardown
\* included.
C25_NoResizeCallbackAfterTeardown ==
    [][(resizeObserver = "disconnected" /\ call'.op = "updateNodeDimensions")
           => nodes' = nodes /\ events' = <<>>]_vars

\* the observer reports nothing once it is disconnected
noReportAfterTeardown ==
    [][call'.op = "resizeObserved" => resizeObserver = "observing"]_vars


(***************************************************************************)
(* Specification of the partial failure: collections of up to three edges  *)
(* between a, b and a node the store never holds, in every order, are set  *)
(* on a store that holds a, b or both, and no predicate.                   *)
(***************************************************************************)
PartialSpecNodes ==
    {<<[id |-> "a"]>>, <<[id |-> "b"]>>, <<[id |-> "a"], [id |-> "b"]>>}

PartialSpecInputs ==
    {[id |-> "e1", source |-> "a", target |-> "b"],
     [id |-> "e2", source |-> "b", target |-> "a"],
     [id |-> "e3", source |-> "a", target |-> "zz"]}

PartialSpecEdges == DistinctIdSeqs(PartialSpecInputs, Cardinality(PartialSpecInputs))

NextPartial ==
    \/ \E ns \in PartialSpecNodes : SetNodes(ns)
    \/ \E es \in PartialSpecEdges : SetEdges(es)

SpecPartial == InitCreated /\ [][NextPartial]_vars

\* the edges of a collection whose source and target are nodes of the store
resolvable(es, ns) ==
    LET Resolves(e) == e.source \in idsOf(ns) /\ e.target \in idsOf(ns)
    IN SelectSeq(es, Resolves)

\* C26: with no isValidConnection predicate, setEdges(E) leaves as the edge
\* collection exactly the edges of E whose source and target are nodes of
\* the store, in the order of E; an edge with a missing endpoint does not
\* keep the others out.
C26_SetEdgesKeepsTheResolvable ==
    (SetEdgesRan /\ isValidConnection = Undefined) =>
        edgeContents(edges) = edgeContents(resolvable(call.edges, nodes))

\* C26 witness: three edges, the one in the middle with a missing target; the
\* other two are kept in their order
C26_Witness ==
    /\ SetEdgesRan
    /\ isValidConnection = Undefined
    /\ Len(call.edges) = 3
    /\ call.edges[2].target \notin idsOf(nodes)
    /\ idSeq(edges) = <<call.edges[1].id, call.edges[3].id>>


(***************************************************************************)
(* The getters (useGetters).  nodesMap and edgesMap are the maps Storage    *)
(* computes from state.nodes and state.edges.                               *)
(***************************************************************************)
\* getNode: (id) => nodesMap.value.get(id)
getNode(ns, id) == mapGet(ns, id)

\* getEdge: (id) => edgesMap.value.get(id)
getEdge(es, id) == mapGet(es, id)

\* el.hidden as a condition: an element without the flag is not hidden
isHidden(el) == IF "hidden" \in DOMAIN el THEN el.hidden ELSE FALSE

\* state.dimensions: the pane as it is measured
PaneDimensions == [width |-> 50, height |-> 50]

Min2(a, b) == IF a < b THEN a ELSE b

Max2(a, b) == IF a > b THEN a ELSE b

\* the extent of the edge along one axis: from the lesser start of its two nodes
\* to the greater end, one unit long when the two coincide
edgeBox(sourcePos, targetPos, sourceSize, targetSize) ==
    LET lo == Min2(sourcePos, targetPos)
        hi == Max2(sourcePos + sourceSize, targetPos + targetSize)
    IN [lo |-> lo, hi |-> IF lo = hi THEN hi + 1 ELSE hi]

\* whether the extent overlaps the pane along one axis; the pane is
\* [-offset / zoom, (size - offset) / zoom], compared here times zoom
axisOverlap(box, offset, size, zoom) ==
    Min2(size - offset, box.hi * zoom) > Max2(0 - offset, box.lo * zoom)

\* isEdgeVisible: the box around the two nodes overlaps the pane
isEdgeVisible(source, target, dims, vp) ==
    /\ axisOverlap(edgeBox(source.computedPosition.x, target.computedPosition.x,
                           source.dimensions.width, target.dimensions.width),
                   vp.x, dims.width, vp.zoom)
    /\ axisOverlap(edgeBox(source.computedPosition.y, target.computedPosition.y,
                           source.dimensions.height, target.dimensions.height),
                   vp.y, dims.height, vp.zoom)

\* mutant of edgeHidden: only the edge's own flag is looked at
edgeHidden_edgeOnly(ns, e, source, target) ==
    [value |-> ~isHidden(e), errors |-> <<>>]

\* edgeHidden(e, source?, target?): whether the edge is to be shown (value), and
\* the error it publishes; without both nodes it returns undefined
edgeHidden(ns, e, source, target) ==
    LET s == IF source # <<>> THEN source ELSE getNode(ns, e.source)
        t == IF target # <<>> THEN target ELSE getNode(ns, e.target)
    IN IF s = <<>> \/ t = <<>>
       THEN [value |-> FALSE, errors |-> <<[code |-> "EDGE_ORPHANED", id |-> e.id]>>]
       ELSE [value |-> ~isHidden(e) /\ ~isHidden(t[1]) /\ ~isHidden(s[1]),
             errors |-> <<>>]

\* the filter of getEdges over the edges left, res the edges kept so far and
\* the errors published; reading a node that is missing throws
RECURSIVE getEdgesFilter(_, _, _, _, _)
getEdgesFilter(ns, rest, cull, vp, res) ==
    IF rest = <<>> THEN res
    ELSE LET e == Head(rest)
             source == IF cull THEN getNode(ns, e.source) ELSE <<>>
             target == IF cull THEN getNode(ns, e.target) ELSE <<>>
             shown == edgeHidden(ns, e, source, target)
             published == res.errors \o shown.errors
         IN IF ~shown.value
            THEN getEdgesFilter(ns, Tail(rest), cull, vp,
                                [res EXCEPT !.errors = published])
            ELSE IF ~cull
            THEN getEdgesFilter(ns, Tail(rest), cull, vp,
                                [res EXCEPT !.errors = published,
                                            !.value = Append(@, e)])
            ELSE IF source = <<>> \/ target = <<>>
            THEN [value |-> <<>>, errors |-> published, threw |-> TRUE]
            ELSE getEdgesFilter(ns, Tail(rest), cull, vp,
                     [res EXCEPT !.errors = published,
                                 !.value = IF isEdgeVisible(source[1], target[1],
                                                            PaneDimensions, vp)
                                           THEN Append(@, e) ELSE @])

\* getEdges
getEdges(st, cull, vp) ==
    getEdgesFilter(st.nodes, st.edges, cull, vp,
                   [value |-> <<>>, errors |-> <<>>, threw |-> FALSE])

\* the getter is evaluated: its value is handed out, its errors are published
GetEdges ==
    LET r == getEdges(Store, onlyRenderVisibleElements, viewport)
    IN /\ errors' = r.errors
       /\ events' = <<>>
       /\ call' = [op |-> "getEdges", value |-> r.value, threw |-> r.threw]
       /\ UNCHANGED <<nodes, edges, connectionLookup, optionVars, connectionVars,
                      viewportVars, saved, storageVars, observerVars, zoomVars, viewVars>>

(***************************************************************************)
(* Specification of the visible edges: node a, inside or outside the pane, *)
(* node b, shown or hidden, and up to two edges between them, one hidden,   *)
(* are declared in any order with and without culling; declaring the nodes  *)
(* again leaves the edges of a node that is gone in the store.              *)
(***************************************************************************)
VisibleSpecNodeInputs ==
    {[id |-> "a"], [id |-> "a", position |-> [x |-> 100, y |-> 0]],
     [id |-> "b"], [id |-> "b", hidden |-> TRUE]}

VisibleSpecNodes == DistinctIdSeqs(VisibleSpecNodeInputs, 2) \ {<<>>}

VisibleSpecEdgeInputs ==
    {[id |-> "e1", source |-> "a", target |-> "b"],
     [id |-> "e2", source |-> "b", target |-> "a", hidden |-> TRUE],
     [id |-> "e3", source |-> "a", target |-> "a"]}

VisibleSpecEdges == DistinctIdSeqs(VisibleSpecEdgeInputs, 2) \ {<<>>}

NextVisible ==
    \/ \E ns \in VisibleSpecNodes : SetNodes(ns)
    \/ \E es \in VisibleSpecEdges : SetEdges(es)
    \/ \E cull \in BOOLEAN : SetState([onlyRenderVisibleElements |-> cull])
    \/ GetEdges

SpecVisible == InitCreated /\ [][NextVisible]_vars

\* an edge of the store whose source or target is no node of the store
orphaned(e) == e.source \notin idsOf(nodes) \/ e.target \notin idsOf(nodes)

\* an edge of the store that has both its nodes, none of the three hidden
notHidden(e) ==
    /\ ~orphaned(e)
    /\ ~isHidden(e)
    /\ ~isHidden(getNode(nodes, e.source)[1])
    /\ ~isHidden(getNode(nodes, e.target)[1])

\* the ids of the edges in a list of EDGE_ORPHANED errors, nothing else in it
orphanReports(errs) ==
    [k \in 1..Len(errs) |-> IF errs[k].code = "EDGE_ORPHANED" THEN errs[k].id
                            ELSE Undefined]

\* C27: without culling the visible-edges getter gives exactly the edges of
\* the store that are not hidden and whose source and target nodes exist and
\* are not hidden; with or without culling the getter does not abort, gives
\* no edge whose source or target node is missing, and publishes one
\* EDGE_ORPHANED error for each such edge and no other.
C27_VisibleEdges ==
    call.op = "getEdges" =>
        /\ ~call.threw
        /\ ~onlyRenderVisibleElements => call.value = SelectSeq(edges, notHidden)
        /\ \A k \in 1..Len(call.value) : ~orphaned(call.value[k])
        /\ orphanReports(errors) = idSeq(SelectSeq(edges, orphaned))

\* C27 witness: with culling, of two edges the getter gives the one that has
\* its nodes and reports the other as orphaned
C27_Witness ==
    /\ call.op = "getEdges"
    /\ onlyRenderVisibleElements
    /\ Len(edges) = 2
    /\ Len(call.value) = 1
    /\ Len(errors) = 1
    /\ orphaned(edges[1])


(***************************************************************************)
(* Specification of the lookups: nodes and edges, one of each with the      *)
(* empty string as its id, are declared, and a node or an edge is looked up *)
(* by both its getter and its find action, by an id of the store, by an id  *)
(* that is not there, by the empty string and by undefined.                 *)
(***************************************************************************)
\* getNode(id) and findNode(id) on the same store
LookupNode(id) ==
    /\ events' = <<>>
    /\ errors' = <<>>
    /\ call' = [op |-> "lookupNode", id |-> id, getter |-> getNode(nodes, id),
                found |-> findNode(nodes, id)]
    /\ UNCHANGED <<nodes, edges, connectionLookup, optionVars, connectionVars,
                   viewportVars, saved, storageVars, observerVars, zoomVars, viewVars>>

\* getEdge(id) and findEdge(id) on the same store
LookupEdge(id) ==
    /\ events' = <<>>
    /\ errors' = <<>>
    /\ call' = [op |-> "lookupEdge", id |-> id, getter |-> getEdge(edges, id),
                found |-> findEdge(edges, id)]
    /\ UNCHANGED <<nodes, edges, connectionLookup, optionVars, connectionVars,
                   viewportVars, saved, storageVars, observerVars, zoomVars, viewVars>>

LookupSpecNodes == DistinctIdSeqs({[id |-> i] : i \in {"", "a"}}, 2)

LookupSpecEdges ==
    DistinctIdSeqs({[id |-> i, source |-> "a", target |-> "a"] : i \in {"", "e1"}}, 2)

LookupSpecIds == {"", "a", "e1", "zz", Undefined}

NextLookup ==
    \/ \E ns \in LookupSpecNodes : SetNodes(ns)
    \/ \E es \in LookupSpecEdges : SetEdges(es)
    \/ \E id \in LookupSpecIds : LookupNode(id)
    \/ \E id \in LookupSpecIds : LookupEdge(id)

SpecLookup == InitCreated /\ [][NextLookup]_vars

\* C28: for every store and every id, the empty string and ids that are not
\* in the store included, getNode(id) gives what findNode(id) gives and
\* getEdge(id) gives what findEdge(id) gives.
C28_GettersAsFinders ==
    call.op \in {"lookupNode", "lookupEdge"} => call.getter = call.found

\* for every id but the empty string the getters give what the find actions
\* give
gettersAsFindersButEmptyId ==
    (call.op \in {"lookupNode", "lookupEdge"} /\ call.id # "") =>
        call.getter = call.found


(***************************************************************************)
(* Specification of the identities: nodes a and b and two edges on them    *)
(* are declared, added and removed in any order; a collection may name an  *)
(* id twice and an addition may name an id the store holds.                *)
(***************************************************************************)
UniqueSpecNodes == SeqsUpTo({[id |-> i] : i \in {"a", "b"}}, 2) \ {<<>>}

UniqueSpecEdges ==
    SeqsUpTo({[id |-> "e1", source |-> "a", target |-> "b"],
              [id |-> "e2", source |-> "a", target |-> "a"]}, 2) \ {<<>>}

NextUnique ==
    \/ \E ns \in UniqueSpecNodes : SetNodes(ns)
    \/ \E ns \in UniqueSpecNodes : AddNodes(ns)
    \/ \E es \in UniqueSpecEdges : SetEdges(es)
    \/ \E es \in UniqueSpecEdges : AddEdges(es)
    \/ \E t \in SubSeqs(idSeq(nodes), 1) \ {<<>>} : RemoveNodes(t, TRUE, FALSE)
    \/ \E t \in SubSeqs(idSeq(edges), 1) \ {<<>>} : RemoveEdges(t)

SpecUnique == InitCreated /\ [][NextUnique]_vars

\* no two elements of the collection have the same id
uniqueIds(coll) == \A i, j \in 1..Len(coll) : coll[i].id = coll[j].id => i = j

\* C29: after any sequence of setNodes, addNodes, setEdges, addEdges,
\* removeNodes and removeEdges no two nodes of the store have the same id and
\* no two edges of the store have the same id.
C29_IdsUnique == uniqueIds(nodes) /\ uniqueIds(edges)

\* an action that is given each id once and, when it adds, no id of the
\* store, leaves the ids of a store unique that had them unique
idsUniqueOnFreshIds ==
    [][(/\ uniqueIds(nodes) /\ uniqueIds(edges)
        /\ call'.op \in {"setNodes", "addNodes"} => uniqueIds(call'.nodes)
        /\ call'.op \in {"setEdges", "addEdges"} => uniqueIds(call'.edges)
        /\ call'.op = "addNodes" => idsOf(call'.nodes) \cap idsOf(nodes) = {}
        /\ call'.op = "addEdges" => idsOf(call'.edges) \cap idsOf(edges) = {})
       => (uniqueIds(nodes') /\ uniqueIds(edges'))]_vars


(***************************************************************************)
(* The registry of the stores (Storage).  A store is known by its place in *)
(* stores; flows maps an id to the store registered under it.              *)
(***************************************************************************)
\* this.flows.set(id, flow)
flowsSet(fl, id, flow) ==
    [k \in (DOMAIN fl) \cup {id} |-> IF k = id THEN flow ELSE fl[k]]

\* this.flows.get(id): the store, or nothing
flowsGet(fl, id) == IF id \in DOMAIN fl THEN <<fl[id]>> ELSE <<>>

\* this.flows.delete(id)
flowsDelete(fl, id) == [k \in (DOMAIN fl) \ {id} |-> fl[k]]

\* Storage.create(id): the state is built, the store is registered under id
StorageCreate(id) ==
    /\ Len(stores) < MaxStores
    /\ CreatedState
    /\ stores' = Append(stores, [id |-> id, destroyed |-> FALSE])
    /\ flows' = flowsSet(flows, id, Len(stores) + 1)
    /\ call' = [op |-> "storageCreate", id |-> id]
    /\ UNCHANGED saved

\* Storage.get(id)
StorageGet(id) ==
    /\ ObserverStep([op |-> "storageGet", id |-> id, value |-> flowsGet(flows, id)])
    /\ UNCHANGED observerVars

\* flow.$destroy() of a store that was created: this.remove(id)
Destroy(flow) ==
    /\ flows' = flowsDelete(flows, stores[flow].id)
    /\ stores' = [stores EXCEPT ![flow].destroyed = TRUE]
    /\ events' = <<>>
    /\ errors' = <<>>
    /\ call' = [op |-> "destroy", store |-> flow]
    /\ UNCHANGED <<nodes, edges, connectionLookup, optionVars, connectionVars,
                   viewportVars, saved, observerVars, zoomVars, viewVars>>

(***************************************************************************)
(* Specification of the registry: stores are created under two ids, looked *)
(* up and destroyed in any order; an id may be used again, while the store *)
(* created under it before is live or after it was destroyed.              *)
(***************************************************************************)
StorageSpecIds == {"vue-flow-0", "vue-flow-1"}

NextStorage ==
    \/ \E id \in StorageSpecIds : StorageCreate(id)
    \/ \E id \in StorageSpecIds : StorageGet(id)
    \/ \E flow \in 1..Len(stores) : Destroy(flow)

SpecStorage == Init /\ [][NextStorage]_vars

\* the stores created under the id, and the one created last of them
createdUnder(id) == {flow \in 1..Len(stores) : stores[flow].id = id}

mostRecent(id) == MaxOf(createdUnder(id))

\* Storage.get(id) gives the store created last under the id while that store
\* has not been destroyed
getsMostRecent ==
    \A id \in StorageSpecIds :
        (createdUnder(id) # {} /\ ~stores[mostRecent(id)].destroyed) =>
            flowsGet(flows, id) = <<mostRecent(id)>>

\* the $destroy of a store leaves every other store that is registered and
\* not destroyed registered as it is
destroyLeavesOthers ==
    call'.op = "destroy" =>
        \A id \in DOMAIN flows :
            (flows[id] # call'.store /\ ~stores[flows[id]].destroyed) =>
                flowsGet(flows', id) = <<flows[id]>>

\* C30: for every id Storage.get(id) gives the store created last under the
\* id for as long as that store has not been destroyed, and the $destroy of a
\* store never unregisters another store that is live.
C30_RegistryRetrievesRightStore == [](getsMostRecent) /\ [][destroyLeavesOthers]_vars

\* while no id has been used for two stores the registry gives, for every id,
\* the store created under it until that store is destroyed
registryRightOnDistinctIds ==
    (\A id \in StorageSpecIds : Cardinality(createdUnder(id)) <= 1) => getsMostRecent


(***************************************************************************)
(* Specification of the deferred measurement: nodes a and b are declared   *)
(* and observed; between the report of a resize and the tick that hands it *)
(* to updateNodeDimensions a node may be removed.                          *)
(***************************************************************************)
DeferredSpecNodes == {<<[id |-> "a"], [id |-> "b"]>>, <<[id |-> "b"], [id |-> "a"]>>}

NextDeferred ==
    \/ call.op = "create" /\ \E ns \in DeferredSpecNodes : SetNodes(ns)
    \/ NodesMounted
    \/ \E ids \in SubSeqs(idSeq(nodes), MaxNodes) : ids # <<>> /\ ResizeObserved(ids)
    \/ \E t \in SubSeqs(idSeq(nodes), 1) : t # <<>> /\ RemoveNodes(t, TRUE, FALSE)
    \/ ResizeTick

SpecDeferred == InitDimensions /\ [][NextDeferred]_vars

\* the ids the dimensions changes of the hook triggers name
dimensionsChanged(log) ==
    UNION {{log[k].changes[j].id :
               j \in {n \in 1..Len(log[k].changes) : log[k].changes[n].type = "dimensions"}} :
           k \in 1..Len(log)}

\* C31: when the tick of a deferred dimension update runs and the update
\* names a node that has been removed since, updateNodeDimensions emits no
\* dimensions change for that id and publishes no error, and emits the
\* dimensions change of every other update of the batch whose node is there.
C31_RemovedNodeSkipped ==
    [][(/\ call'.op = "updateNodeDimensions"
        /\ vueFlowRef # Null
        /\ \E k \in 1..Len(call'.updates) : call'.updates[k].id \notin idsOf(nodes))
       => /\ errors' = <<>>
          /\ dimensionsChanged(events') =
                 {call'.updates[k].id : k \in 1..Len(call'.updates)} \cap idsOf(nodes)
          /\ idSeq(nodes') = idSeq(nodes)]_vars

\* C31 witness: the tick of a report that names a and b has run after a was
\* removed, and the dimensions change of b was delivered
C31_Witness ==
    /\ call.op = "updateNodeDimensions"
    /\ vueFlowRef # Null
    /\ Len(call.updates) = 2
    /\ call.updates[1].id \notin idsOf(nodes)
    /\ dimensionsChanged(events) = {call.updates[2].id}
    /\ errors = <<>>


\* the nodes of a collection whose deletable flag is false
notDeletable(ns) == {ns[i].id : i \in {j \in 1..Len(ns) : ~deletableOrDefault(ns[j])}}

\* C32 as claimed: removeNodes emits no remove change for a node whose
\* deletable flag is false, be the node a target of the call or a descendant
\* reached with removeChildren true.
C32_NoRemoveChangeForProtected ==
    [][call'.op = "removeNodes" =>
          changedIds(events', "nodesChange") \cap notDeletable(nodes) = {}]_vars

\* C32 amended: a remove change that removeNodes emits for a node whose
\* deletable flag is false is emitted with removeChildren true for a
\* descendant of a target of the call whose own flag is not false; a target
\* is never removed on its own account when its flag is false.
C32_ProtectedRemovedOnlyAsDescendant ==
    [][call'.op = "removeNodes" =>
          LET removed == Range(call'.targets) \ protectedTargets(nodes, call'.targets)
          IN \A id \in changedIds(events', "nodesChange") \cap notDeletable(nodes) :
                 /\ call'.removeChildren
                 /\ id \notin removed
                 /\ id \in withDescendants(nodes, removed \cap idsOf(nodes))]_vars

\* C32 witness: a and b were targets, b the child of a and not deletable;
\* without removeChildren only a is removed
C32_Witness ==
    /\ call.op = "removeNodes"
    /\ call.targets = <<"a", "b">>
    /\ ~call.removeChildren
    /\ ~call.threw
    /\ changedIds(events, "nodesChange") = {"a"}
    /\ Len(nodes) >= 1
    /\ nodes[1].id = "b"
    /\ ~deletableOrDefault(nodes[1])


\* every batch of the hook triggers names each id at most once
batchesNameIdsOnce(log) == \A k \in 1..Len(log) : uniqueIds(log[k].changes)

\* C33: within one removeNodes call the batch of node removals names each
\* node at most once and the batch of edge removals names each edge at most
\* once, for every target list and every graph.
C33_RemovalBatchesNameIdsOnce ==
    [][call'.op = "removeNodes" => batchesNameIdsOnce(events')]_vars

\* removeNodes of one target without its children names each id at most once
oneTargetNamesIdsOnce ==
    [][(/\ call'.op = "removeNodes"
        /\ Len(call'.targets) = 1
        /\ ~call'.removeChildren) => batchesNameIdsOnce(events')]_vars


\* the nodes below id along parentNode, id itself when it lies on a cycle
below(ns, id) ==
    withDescendants(ns, {ns[i].id : i \in {j \in 1..Len(ns) : Get(ns[j], "parentNode") = id}})

\* no node is below itself
acyclic(ns) == \A i \in 1..Len(ns) : ns[i].id \notin below(ns, ns[i].id)

\* C34: removeNodes with removeChildren true returns for every node
\* collection, also when parentNode references form a cycle or a node names
\* itself as its parent.
C34_RemoveChildrenReturns ==
    (call.op = "removeNodes" /\ call.removeChildren) => ~call.threw

\* removeNodes returns when no node is below itself
removeNodesReturnsWithoutCycle ==
    [][(call'.op = "removeNodes" /\ acyclic(nodes)) => ~call'.threw]_vars


\* C35: no action triggers nodesChange or edgesChange with an empty list of
\* changes.
C35_NoEmptyChangeList == \A k \in 1..Len(events) : events[k].changes # <<>>

\* every action but removeEdges triggers its hooks with changes only
noEmptyChangeListButRemoveEdges ==
    call.op # "removeEdges" => \A k \in 1..Len(events) : events[k].changes # <<>>


(***************************************************************************)
(* The candidate end handle and the status belong to a drag gesture.       *)
(***************************************************************************)
\* C36: in every state reached from idle by startConnection, updateConnection
\* and endConnection, click or drag, a null connectionStartHandle implies a
\* null connectionEndHandle and a null connectionStatus.
C36_EndHandleNeedsDragStart ==
    connectionStartHandle = Null =>
        /\ connectionEndHandle = Null
        /\ connectionStatus = Null

\* C36 witness: a click gesture is in progress, no drag gesture is, and an
\* update that names an end handle and a status has been made
C36_Witness ==
    /\ call.op = "updateConnection"
    /\ call.result # Null
    /\ call.status = "valid"
    /\ connectionClickStartHandle # Null
    /\ connectionStartHandle = Null
    /\ connectionEndHandle = Null


(***************************************************************************)
(* Specification of setState with elements: an initialized store over two  *)
(* nodes, the two edges between them and a self loop, given nodes, edges   *)
(* or both.                                                                *)
(***************************************************************************)
StateSpecNodes == DistinctIdSeqs({[id |-> i] : i \in {"a", "b"}}, MaxNodes)

StateSpecEdges ==
    DistinctIdSeqs({[id |-> "e1", source |-> "a", target |-> "b"],
                    [id |-> "e2", source |-> "b", target |-> "a"],
                    [id |-> "e3", source |-> "a", target |-> "a"]}, MaxEdges)

NextState ==
    \/ \E ns \in StateSpecNodes : SetNodes(ns)
    \/ \E es \in StateSpecEdges : SetEdges(es)
    \/ \E ns \in StateSpecNodes : SetState([nodes |-> ns])
    \/ \E es \in StateSpecEdges : SetState([edges |-> es])
    \/ \E ns \in StateSpecNodes, es \in StateSpecEdges : SetState([nodes |-> ns, edges |-> es])

SpecState == InitCreated /\ [][NextState]_vars

\* a setState step that gives the one option and not the other
givesOnly(given, other) ==
    /\ call'.op = "setState"
    /\ given \in DOMAIN call'.opts
    /\ other \notin DOMAIN call'.opts

\* C37: on an initialized store, setState with nodes and without edges leaves
\* the edge collection unchanged, and setState with edges and without nodes
\* leaves the node collection unchanged.
C37_SetStateLeavesTheOtherCollection ==
    [][initialized =>
          /\ (givesOnly("nodes", "edges") => edges' = edges)
          /\ (givesOnly("edges", "nodes") => nodes' = nodes)]_vars

\* what the store does instead: the collection that is not given is emptied,
\* and with the nodes gone no edge of the given ones resolves
setStateEmptiesTheOtherCollection ==
    [][initialized =>
          /\ (givesOnly("nodes", "edges") => edges' = <<>>)
          /\ (givesOnly("edges", "nodes") => nodes' = <<>> /\ edges' = <<>>)]_vars


(***************************************************************************)
(* The zoom options asked for last, by setState or by a setter, against    *)
(* the deferred application of setState.                                   *)
(***************************************************************************)
\* the store holds the zoom options as they were last asked for
holdsRequested ==
    /\ minZoom = zoomRequested.minZoom
    /\ maxZoom = zoomRequested.maxZoom
    /\ translateExtent = zoomRequested.translateExtent

\* C38: a zoom bound set through setMinZoom, setMaxZoom or setTranslateExtent
\* after a setState call is not overwritten by the deferred application of
\* that call: with the pan-zoom engine ready and no application waiting,
\* minZoom, maxZoom and translateExtent hold the values asked for last.
C38_LatestZoomRequestWins ==
    (d3Zoom # <<>> /\ pendingSkipped = <<>>) => holdsRequested

====
